---- MODULE Spec2Model ----
(***************************************************************************)
(* A model of vtmenu (src/menu.py): the word wrapper, the scrolling text   *)
(* viewport (TextRendererCore), the menu entries' command templates, the   *)
(* input line editor and command resolver (Renderer) and the host loop     *)
(* (main).  Strings are sequences of one-character strings, indexed from 1 *)
(* in TLA+; the helper operators below keep Python's 0-based positions.    *)
(***************************************************************************)
EXTENDS Integers, Sequences, FiniteSets, TLC

NL == "\n"
CR == "\r"
SP == " "

\* ------------------------------------------------------------------------
\* Bounds of the word-wrap specification.
MaxLen == 5
MaxCols == 3

\* ------------------------------------------------------------------------
\* Python string primitives.

\* s[:n]
Take(s, n) == SubSeq(s, 1, IF n < 0 THEN 0 ELSE IF n > Len(s) THEN Len(s) ELSE n)

\* s[n:]
Drop(s, n) == SubSeq(s, (IF n < 0 THEN 0 ELSE n) + 1, Len(s))

\* s.find(c) for a one-character c: the 0-based position of the first c, or -1.
Find(s, c) ==
    IF \E i \in 1..Len(s) : s[i] = c
    THEN (CHOOSE i \in 1..Len(s) : s[i] = c /\ \A j \in 1..(i - 1) : s[j] /= c) - 1
    ELSE -1

\* c in s
Contains(s, c) == \E i \in 1..Len(s) : s[i] = c

\* s.startswith(p)
StartsWith(s, p) == Len(p) <= Len(s) /\ SubSeq(s, 1, Len(p)) = p

RECURSIVE ReplaceCRLF(_)
\* text.replace("\r\n", "\n"), halving the text between two characters that
\* are not a CR LF pair.
ReplaceCRLF(s) ==
    IF Len(s) < 2 THEN s
    ELSE IF Len(s) = 2 THEN (IF s = <<CR, NL>> THEN <<NL>> ELSE s)
    ELSE LET h == Len(s) \div 2
             m == IF s[h] = CR /\ s[h + 1] = NL THEN h + 1 ELSE h
         IN  ReplaceCRLF(Take(s, m)) \o ReplaceCRLF(Drop(s, m))

RECURSIVE SplitOn(_, _)
\* s.split(c) for a one-character separator: always at least one piece.
SplitOn(s, c) ==
    IF Find(s, c) < 0 THEN <<s>>
    ELSE <<Take(s, Find(s, c))>> \o SplitOn(Drop(s, Find(s, c) + 1), c)

\* ------------------------------------------------------------------------
\* TextRendererCore.wordWrap

\* A joinLines that leaves curLine where it is.
joinLines_KeepsLine(newText, curLine) == [newText |-> newText, curLine |-> curLine]

\* joinLines(): flush curLine into newText, separated by a newline unless
\* newText already ends with one.
joinLines(newText, curLine) ==
    IF Len(curLine) = 0 THEN [newText |-> newText, curLine |-> curLine]
    ELSE IF Len(newText) = 0 THEN [newText |-> curLine, curLine |-> <<>>]
    ELSE IF newText[Len(newText)] = NL
         THEN [newText |-> newText \o curLine, curLine |-> <<>>]
         ELSE [newText |-> newText \o <<NL>> \o curLine, curLine |-> <<>>]

\* spaceLeft() counting one column too many.
spaceLeft_OneTooMany(cols, curLine) == cols - Len(curLine) + 1

spaceLeft(cols, curLine) == cols - Len(curLine)

\* One iteration of the while loop of wordWrap, on the loop's three locals.
WrapIter(text, newText, curLine, cols) ==
    LET left == spaceLeft(cols, curLine)
        newlinePos == Find(text, NL)
        chunkLen == newlinePos + 1
        found == Find(text, SP)
        nextIsSpace == found >= 0
        spacePos == IF found < 0 THEN Len(text) ELSE found
    IN  IF Len(text) <= left
        THEN [text |-> <<>>, newText |-> newText, curLine |-> curLine \o text]
        ELSE IF newlinePos >= 0 /\ chunkLen <= left + 1
        THEN LET j == joinLines(newText, curLine \o Take(text, chunkLen))
             IN  [text |-> Drop(text, chunkLen), newText |-> j.newText, curLine |-> j.curLine]
        ELSE IF spacePos < left
        THEN IF nextIsSpace
             THEN [text |-> Drop(text, spacePos + 1), newText |-> newText,
                   curLine |-> curLine \o Take(text, spacePos + 1)]
             ELSE [text |-> Drop(text, spacePos), newText |-> newText,
                   curLine |-> curLine \o Take(text, spacePos)]
        ELSE IF spacePos = left
        THEN IF nextIsSpace
             THEN [text |-> Drop(text, spacePos + 1), newText |-> newText,
                   curLine |-> curLine \o Take(text, spacePos) \o <<NL>>]
             ELSE [text |-> Drop(text, spacePos), newText |-> newText,
                   curLine |-> curLine \o Take(text, spacePos)]
        ELSE IF Len(curLine) > 0
        THEN LET j == joinLines(newText, curLine)
             IN  [text |-> text, newText |-> j.newText, curLine |-> j.curLine]
        ELSE LET j == joinLines(newText, curLine \o Take(text, left))
             IN  [text |-> Drop(text, left), newText |-> j.newText, curLine |-> j.curLine]

RECURSIVE WrapLoop(_, _, _, _)
WrapLoop(text, newText, curLine, cols) ==
    IF Len(text) = 0 THEN joinLines(newText, curLine).newText
    ELSE LET st == WrapIter(text, newText, curLine, cols)
         IN  WrapLoop(st.text, st.newText, st.curLine, cols)

wordWrap(text, cols) == WrapLoop(ReplaceCRLF(text), <<>>, <<>>, cols)

\* The line list displayText stores in self.text.
WrappedLines(text, cols) == SplitOn(wordWrap(text, cols), NL)

\* ------------------------------------------------------------------------
\* Bounds of the viewport specification.
MaxViewCols == 2
MaxRows == 2

\* ------------------------------------------------------------------------
\* Terminal operations, as the values recorded in the transmission log.
TCmd(name) == <<"cmd", name>>
TText(s) == <<"text", s>>
TMove(r, c) == <<"move", r, c>>
TSetRegion(t, b) == <<"setScrollRegion", t, b>>
TClearRegion == <<"clearScrollRegion">>

\* Whether the scroll region is in force after the operations of log, given
\* whether it was before.
RECURSIVE RegionAfter(_, _)
RegionAfter(log, before) ==
    IF Len(log) = 0 THEN before
    ELSE RegionAfter(Tail(log),
                     IF Head(log)[1] = "setScrollRegion" THEN TRUE
                     ELSE IF Head(log)[1] = "clearScrollRegion" THEN FALSE
                     ELSE before)

\* ------------------------------------------------------------------------
\* TextRendererCore._displayText.  The scan state st holds the operations
\* sent so far (out), the two closure variables bolded and boldRequested
\* (req), and linkDepth (depth); low is the lowest value linkDepth has had.

\* sendText(text) of _displayText: flush a pending style change, then send.
sendText(st, t) ==
    IF st.bolded /= st.req
    THEN [st EXCEPT !.bolded = st.req,
                    !.out = @ \o <<TCmd(IF st.req THEN "SET_BOLD" ELSE "SET_NORMAL"), TText(t)>>]
    ELSE [st EXCEPT !.out = @ \o <<TText(t)>>]

setBold(st, bold) == [st EXCEPT !.req = bold]

\* "if line > startVisible: sendText(t)"
sendVisible(vis, st, t) == IF vis THEN sendText(st, t) ELSE st

\* "if linkDepth == d: setBold(bold)"
setBoldAtDepth(d, bold, st) == IF st.depth = d THEN setBold(st, bold) ELSE st

addDepth(n, st) ==
    [st EXCEPT !.depth = @ + n, !.low = IF st.depth + n < @ THEN st.depth + n ELSE @]

RECURSIVE ScanLine(_, _, _)
\* The inner "while text" loop on one wrapped line; vis is line > startVisible.
ScanLine(t, st, vis) ==
    IF Len(t) = 0 THEN st
    ELSE IF Find(t, "[") < 0 /\ Find(t, "]") < 0
    THEN \* No links in this line.
         sendVisible(vis, st, t)
    ELSE IF Find(t, "[") >= 0 /\ Find(t, "]") < 0
    THEN \* Started a link in this line, but didn't end it.
         ScanLine(Drop(t, Find(t, "[") + 1),
                  sendVisible(vis,
                      setBoldAtDepth(1, TRUE,
                          sendVisible(vis, addDepth(1, st), Take(t, Find(t, "[")))),
                      <<"[">>),
                  vis)
    ELSE IF (Find(t, "[") < 0 /\ Find(t, "]") >= 0) \/ Find(t, "]") < Find(t, "[")
    THEN \* Finished a link in this line.
         ScanLine(Drop(t, Find(t, "]") + 1),
                  addDepth(-1,
                      setBoldAtDepth(1, FALSE,
                          sendVisible(vis,
                              sendVisible(vis, st, Take(t, Find(t, "]"))),
                              <<"]">>))),
                  vis)
    ELSE \* There's an open and a later close on this line.
         ScanLine(Drop(Drop(t, Find(t, "[") + 1), Find(Drop(t, Find(t, "[") + 1), "]") + 1),
                  setBoldAtDepth(0, FALSE,
                      sendVisible(vis,
                          sendVisible(vis,
                              sendVisible(vis,
                                  setBoldAtDepth(0, TRUE,
                                      sendVisible(vis, st, Take(t, Find(t, "[")))),
                                  <<"[">>),
                              Take(Drop(t, Find(t, "[") + 1),
                                   Find(Drop(t, Find(t, "[") + 1), "]"))),
                          <<"]">>)),
                  vis)

\* The end of one pass of the outer loop: count the line, clear its tail,
\* move to the next row.
endOfLine(vis, needsClear, lineNo, endVisible, st) ==
    IF vis
    THEN [st EXCEPT !.displayed = @ + 1,
                    !.out = @ \o (IF needsClear THEN <<TCmd("CLEAR_TO_END_OF_LINE")>> ELSE <<>>)
                              \o (IF lineNo /= endVisible THEN <<TText(<<NL>>)>> ELSE <<>>)]
    ELSE st

RECURSIVE ScanLines(_, _, _, _, _, _, _, _)
\* The outer "while line < lastLine" loop, from 0-based line index i.
ScanLines(lines, i, lastLine, startVisible, endVisible, wipeNonText, cols, st) ==
    IF i >= lastLine THEN st
    ELSE ScanLines(lines, i + 1, lastLine, startVisible, endVisible, wipeNonText, cols,
                   endOfLine((i + 1) > startVisible,
                             wipeNonText /\ Len(lines[i + 1]) < cols,
                             i + 1, endVisible,
                             ScanLine(lines[i + 1], st, (i + 1) > startVisible)))

RECURSIVE WipeRows(_, _, _)
\* The trailing "while displayed < clearAmount" loop.
WipeRows(displayed, clearAmount, nrows) ==
    IF displayed >= clearAmount THEN <<>>
    ELSE <<TCmd("CLEAR_LINE")>>
         \o (IF displayed < nrows - 1 THEN <<TText(<<NL>>)>> ELSE <<>>)
         \o WipeRows(displayed + 1, clearAmount, nrows)

Min3(a, b, c) == IF a <= b /\ a <= c THEN a ELSE IF b <= c THEN b ELSE c

\* A scan that starts at the first visible line, not at line 0.
DisplayScan_FromWindow(lines, offset, nrows, cols, startVisible, endVisible, wipeNonText) ==
    ScanLines(lines, Min3(startVisible, Len(lines), endVisible),
              Min3(nrows + offset, Len(lines), endVisible),
              startVisible, endVisible, wipeNonText, cols,
              [out |-> <<>>, bolded |-> FALSE, req |-> FALSE, depth |-> 0, low |-> 0,
               displayed |-> 0])

\* The final scan state of _displayText(startVisible, endVisible, wipeNonText)
\* on a renderer with the given lines, offset and geometry.
DisplayScan(lines, offset, nrows, cols, startVisible, endVisible, wipeNonText) ==
    ScanLines(lines, 0, Min3(nrows + offset, Len(lines), endVisible),
              startVisible, endVisible, wipeNonText, cols,
              [out |-> <<>>, bolded |-> FALSE, req |-> FALSE, depth |-> 0, low |-> 0,
               displayed |-> 0])

\* The terminal operations _displayText sends.
displayTextOps(lines, offset, nrows, cols, startVisible, endVisible, wipeNonText) ==
    LET st == DisplayScan(lines, offset, nrows, cols, startVisible, endVisible, wipeNonText)
    IN  st.out \o (IF wipeNonText
                   THEN WipeRows(st.displayed, endVisible - startVisible, nrows)
                   ELSE <<>>)

\* ------------------------------------------------------------------------
\* TextRendererCore's public operations, each as the offset it assigns and
\* the terminal operations it then sends.  top is 3 and bottom rows + 2, as
\* Renderer constructs its viewport.
ViewTop == 3
ViewBottom(nrows) == nrows + 2

\* boundsEnforce without its lower clamp.
boundsEnforce_NoFloor(n, total, nrows) ==
    IF n > total - nrows THEN total - nrows ELSE n

boundsEnforce(n, total, nrows) ==
    LET l1 == IF n > total - nrows THEN total - nrows ELSE n
    IN  IF l1 < 0 THEN 0 ELSE l1

\* The operations of a full redraw of the window at offset.
FullRedrawOps(lines, offset, nrows, cols) ==
    <<TCmd("SAVE_CURSOR"), TCmd("SET_NORMAL"), TMove(ViewTop, 1),
      TSetRegion(ViewTop, ViewBottom(nrows))>>
    \o displayTextOps(lines, offset, nrows, cols, offset, offset + nrows, TRUE)
    \o <<TClearRegion, TCmd("RESTORE_CURSOR")>>

displayTextCall(t, nrows, cols) ==
    LET lines == WrappedLines(t, cols)
    IN  [text |-> lines,
         ops |-> <<TMove(ViewTop, 1), TSetRegion(ViewTop, ViewBottom(nrows))>>
                 \o displayTextOps(lines, 0, nrows, cols, 0, nrows, FALSE)
                 \o <<TClearRegion>>]

\* A scrollUp that draws the line below the exposed one as well.
scrollUpCall_TwoLines(lines, offset, nrows, cols) ==
    IF offset > 0
    THEN [line |-> offset - 1,
          ops |-> <<TCmd("SAVE_CURSOR"), TCmd("SET_NORMAL"), TMove(ViewTop, 1),
                    TSetRegion(ViewTop, ViewBottom(nrows)), TCmd("MOVE_CURSOR_UP")>>
                  \o displayTextOps(lines, offset - 1, nrows, cols, offset - 1, offset + 1, FALSE)
                  \o <<TClearRegion, TCmd("RESTORE_CURSOR")>>]
    ELSE [line |-> offset, ops |-> <<>>]

scrollUpCall(lines, offset, nrows, cols) ==
    IF offset > 0
    THEN [line |-> offset - 1,
          ops |-> <<TCmd("SAVE_CURSOR"), TCmd("SET_NORMAL"), TMove(ViewTop, 1),
                    TSetRegion(ViewTop, ViewBottom(nrows)), TCmd("MOVE_CURSOR_UP")>>
                  \o displayTextOps(lines, offset - 1, nrows, cols, offset - 1, offset, FALSE)
                  \o <<TClearRegion, TCmd("RESTORE_CURSOR")>>]
    ELSE [line |-> offset, ops |-> <<>>]

scrollDownCall(lines, offset, nrows, cols) ==
    IF offset < Len(lines) - nrows
    THEN [line |-> offset + 1,
          ops |-> <<TCmd("SAVE_CURSOR"), TCmd("SET_NORMAL"),
                    TSetRegion(ViewTop, ViewBottom(nrows)), TMove(ViewBottom(nrows), 1),
                    TCmd("MOVE_CURSOR_DOWN")>>
                  \o displayTextOps(lines, offset + 1, nrows, cols,
                                    offset + 1 + (nrows - 1), offset + 1 + nrows, FALSE)
                  \o <<TClearRegion, TCmd("RESTORE_CURSOR")>>]
    ELSE [line |-> offset, ops |-> <<>>]

\* A jump that redraws the window whether the offset changes or not.
jumpCall_AlwaysRedraws(target, lines, offset, nrows, cols) ==
    [line |-> boundsEnforce(target, Len(lines), nrows),
     ops |-> FullRedrawOps(lines, boundsEnforce(target, Len(lines), nrows), nrows, cols)]

\* pageUp, pageDown, goToTop and goToBottom differ only in the line they aim at.
jumpCall(target, lines, offset, nrows, cols) ==
    LET l == boundsEnforce(target, Len(lines), nrows)
    IN  IF l /= offset
        THEN [line |-> l, ops |-> FullRedrawOps(lines, l, nrows, cols)]
        ELSE [line |-> offset, ops |-> <<>>]

pageUpCall(lines, offset, nrows, cols) ==
    jumpCall(offset - (nrows - 1), lines, offset, nrows, cols)

pageDownCall(lines, offset, nrows, cols) ==
    jumpCall(offset + (nrows - 1), lines, offset, nrows, cols)

goToTopCall(lines, offset, nrows, cols) == jumpCall(0, lines, offset, nrows, cols)

goToBottomCall(lines, offset, nrows, cols) ==
    jumpCall(Len(lines) - nrows, lines, offset, nrows, cols)

\* ------------------------------------------------------------------------
\* More Python string primitives, for the command language.

Digits == {"0", "1", "2", "3", "4", "5", "6", "7", "8", "9"}

DigitVal(c) ==
    CASE c = "0" -> 0 [] c = "1" -> 1 [] c = "2" -> 2 [] c = "3" -> 3 [] c = "4" -> 4
      [] c = "5" -> 5 [] c = "6" -> 6 [] c = "7" -> 7 [] c = "8" -> 8 [] c = "9" -> 9

DigitChar(n) ==
    CASE n = 0 -> "0" [] n = 1 -> "1" [] n = 2 -> "2" [] n = 3 -> "3" [] n = 4 -> "4"
      [] n = 5 -> "5" [] n = 6 -> "6" [] n = 7 -> "7" [] n = 8 -> "8" [] n = 9 -> "9"

RECURSIVE DigitsVal(_)
\* The number a run of decimal digits denotes.
DigitsVal(s) ==
    IF Len(s) = 0 THEN 0
    ELSE 10 * DigitsVal(SubSeq(s, 1, Len(s) - 1)) + DigitVal(s[Len(s)])

RECURSIVE Decimal(_)
\* str(n) for n >= 0.
Decimal(n) == IF n < 10 THEN <<DigitChar(n)>> ELSE Decimal(n \div 10) \o <<DigitChar(n % 10)>>

AllDigits(s) == Len(s) > 0 /\ \A i \in 1..Len(s) : s[i] \in Digits

\* int(s): an optional sign and decimal digits; anything else is a ValueError.
IsInt(s) ==
    IF Len(s) > 0 /\ s[1] \in {"+", "-"} THEN AllDigits(Drop(s, 1)) ELSE AllDigits(s)

IntOf(s) ==
    IF s[1] = "-" THEN 0 - DigitsVal(Drop(s, 1))
    ELSE IF s[1] = "+" THEN DigitsVal(Drop(s, 1))
    ELSE DigitsVal(s)

RECURSIVE LStrip(_)
LStrip(s) == IF Len(s) > 0 /\ s[1] = SP THEN LStrip(Drop(s, 1)) ELSE s

RECURSIVE RStrip(_)
RStrip(s) == IF Len(s) > 0 /\ s[Len(s)] = SP THEN RStrip(Take(s, Len(s) - 1)) ELSE s

\* s.strip()
Strip(s) == RStrip(LStrip(s))

RECURSIVE Tokens(_)
\* s.split(): the runs of non-blank characters.
Tokens(s) ==
    IF Len(LStrip(s)) = 0 THEN <<>>
    ELSE IF Find(LStrip(s), SP) < 0 THEN <<LStrip(s)>>
    ELSE <<Take(LStrip(s), Find(LStrip(s), SP))>>
         \o Tokens(Drop(LStrip(s), Find(LStrip(s), SP)))

RECURSIVE Join(_, _)
\* sep.join(parts)
Join(parts, sep) ==
    IF Len(parts) = 0 THEN <<>>
    ELSE IF Len(parts) = 1 THEN parts[1]
    ELSE parts[1] \o sep \o Join(Tail(parts), sep)

RECURSIVE Replace(_, _, _)
\* s.replace(key, val) for a non-empty key: every occurrence, left to right.
Replace(s, key, val) ==
    IF Len(s) < Len(key) THEN s
    ELSE IF StartsWith(s, key) THEN val \o Replace(Drop(s, Len(key)), key, val)
    ELSE <<s[1]>> \o Replace(Drop(s, 1), key, val)

\* ------------------------------------------------------------------------
\* Entry.  An entry is [title, cmd, params]: the raw command template and
\* the label overrides, a sequence of <<placeholder, label>> pairs.

RECURSIVE cmdScan(_, _, _)
\* The loop of Entry.cmd from 1-based position i, in state "normal" (acc
\* FALSE) or "accumulate" (acc TRUE).
cmdScan(raw, i, acc) ==
    IF i > Len(raw) THEN <<>>
    ELSE IF ~acc
    THEN IF raw[i] = "$" THEN cmdScan(raw, i + 1, TRUE)
         ELSE <<raw[i]>> \o cmdScan(raw, i + 1, FALSE)
    ELSE IF raw[i] = "$" THEN <<"$">> \o cmdScan(raw, i + 1, FALSE)
         ELSE <<"$", raw[i]>> \o cmdScan(raw, i + 1, FALSE)

\* Entry.cmd: the template with $$ unescaped.
EntryCmd(e) == cmdScan(e.cmd, 1, FALSE)

RECURSIVE paramScan(_, _, _, _)
\* The loop of Entry.params: the placeholders seen from position i on, with
\* the digits accumulated so far.
paramScan(raw, i, acc, accumed) ==
    IF i > Len(raw)
    THEN IF Len(accumed) > 0 THEN <<<<"$">> \o accumed>> ELSE <<>>
    ELSE IF ~acc
    THEN paramScan(raw, i + 1, raw[i] = "$", accumed)
    ELSE IF raw[i] = "$" /\ Len(accumed) = 0
    THEN paramScan(raw, i + 1, FALSE, accumed)
    ELSE IF raw[i] = "*" /\ Len(accumed) = 0
    THEN <<<<"$", "*">>>> \o paramScan(raw, i + 1, FALSE, <<>>)
    ELSE IF raw[i] \in Digits
    THEN paramScan(raw, i + 1, TRUE, accumed \o <<raw[i]>>)
    ELSE (IF Len(accumed) > 0 THEN <<<<"$">> \o accumed>> ELSE <<>>)
         \o paramScan(raw, i + 1, FALSE, <<>>)

HasOverride(e, param) == \E i \in 1..Len(e.params) : e.params[i][1] = param

Override(e, param) ==
    e.params[CHOOSE i \in 1..Len(e.params) : e.params[i][1] = param][2]

\* The label of a placeholder with the configured override ignored.
ParamLabel_NoOverride(e, param) ==
    IF param = <<"$", "*">> THEN <<"T", "E", "X", "T">>
    ELSE <<"P", "A", "R", "A", "M">> \o Drop(param, 1)

\* The label of a placeholder: its override, else TEXT or PARAM<digits>.
ParamLabel(e, param) ==
    IF HasOverride(e, param) THEN Override(e, param)
    ELSE IF param = <<"$", "*">> THEN <<"T", "E", "X", "T">>
    ELSE <<"P", "A", "R", "A", "M">> \o Drop(param, 1)

RECURSIVE labelSeen(_, _, _)
\* The dictionary Entry.params returns, as the sequence of its
\* <<placeholder, label>> items in insertion order.
labelSeen(e, seen, out) ==
    IF Len(seen) = 0 THEN out
    ELSE IF \E i \in 1..Len(out) : out[i][1] = Head(seen)
    THEN labelSeen(e, Tail(seen), out)
    ELSE labelSeen(e, Tail(seen), out \o <<<<Head(seen), ParamLabel(e, Head(seen))>>>>)

EntryParams(e) == labelSeen(e, paramScan(e.cmd, 1, FALSE, <<>>), <<>>)

\* invalidChars(param) with the semicolon let through.
invalidChars_NoSemicolon(param) ==
    \E ch \in {"<", ">", "(", ")", "|", "&"} : Contains(param, ch)

\* invalidChars(param)
invalidChars(param) == \E ch \in {";", "<", ">", "(", ")", "|", "&"} : Contains(param, ch)

\* ------------------------------------------------------------------------
\* Renderer.processInput on b"\n": the resolution of the submitted line.
\* An action is <<>> (None), <<"Select", executable>> or
\* <<"Setting", setting, value>> with value <<>> (None) or <<string>>.  An
\* error is the message handed to displayError, as <<format, argument...>>;
\* <<>> is the empty message.  A resolution is [action, error, exc], exc the
\* exception that leaves processInput, if any.
NoAction == <<>>
SelectAction(executable) == <<"Select", executable>>
SettingAction(setting, value) == <<"Setting", setting, value>>
NoError == <<>>

Returns(action) == [action |-> action, error |-> NoError, exc |-> "none"]
Shows(error) == [action |-> NoAction, error |-> error, exc |-> "none"]
Raises(exc) == [action |-> NoAction, error |-> NoError, exc |-> exc]

RECURSIVE bindParams(_, _, _, _)
\* The "for param in params" loop from item i: the values bound so far, or
\* the error that broke out of the loop.
bindParams(params, i, linkAndParams, actualParams) ==
    IF i > Len(params) THEN [good |-> TRUE, actualParams |-> actualParams, error |-> NoError]
    ELSE IF params[i][1] = <<"$", "*">>
    THEN IF invalidChars(Join(Tail(linkAndParams), <<SP>>))
         THEN [good |-> FALSE, actualParams |-> actualParams,
               error |-> <<"Parameter {} cannot take value {}", params[i][2],
                           Join(Tail(linkAndParams), <<SP>>)>>]
         ELSE bindParams(params, i + 1, linkAndParams,
                         actualParams \o <<<<params[i][1], Join(Tail(linkAndParams), <<SP>>)>>>>)
    ELSE IF DigitsVal(Drop(params[i][1], 1)) < 1
            \/ DigitsVal(Drop(params[i][1], 1)) >= Len(linkAndParams)
    THEN [good |-> FALSE, actualParams |-> actualParams,
          error |-> <<"Option requires parameter {}", params[i][2]>>]
    ELSE IF invalidChars(linkAndParams[DigitsVal(Drop(params[i][1], 1)) + 1])
    THEN [good |-> FALSE, actualParams |-> actualParams,
          error |-> <<"Parameter {} cannot take value {}", params[i][2],
                      linkAndParams[DigitsVal(Drop(params[i][1], 1)) + 1]>>]
    ELSE bindParams(params, i + 1, linkAndParams,
                    actualParams \o <<<<params[i][1],
                                        linkAndParams[DigitsVal(Drop(params[i][1], 1)) + 1]>>>>)

RECURSIVE substitute(_, _)
\* "for key, val in actualParams.items(): cmd = cmd.replace(key, val)"
substitute(cmd, actualParams) ==
    IF Len(actualParams) = 0 THEN cmd
    ELSE substitute(Replace(cmd, Head(actualParams)[1], Head(actualParams)[2]),
                    Tail(actualParams))

\* The branch for an in-range entry that has placeholders.
selectWithParams(e, linkAndParams) ==
    LET b == bindParams(EntryParams(e), 1, linkAndParams, <<>>)
    IN  IF b.good THEN Returns(SelectAction(substitute(EntryCmd(e), b.actualParams)))
        ELSE Shows(b.error)

\* The "!" branch letting an entry without placeholders take extra tokens.
resolveLink_ExtraTokens(actual, opts) ==
    LET linkAndParams == Tokens(Strip(Drop(actual, 1)))
    IN  IF Len(linkAndParams) = 0 THEN Raises("IndexError")
        ELSE IF ~IsInt(linkAndParams[1]) THEN Shows(<<"Invalid link navigation request!">>)
        ELSE IF IntOf(linkAndParams[1]) - 1 < 0 \/ IntOf(linkAndParams[1]) - 1 >= Len(opts)
        THEN Shows(<<"Unknown menu option!">>)
        ELSE IF Len(EntryParams(opts[IntOf(linkAndParams[1])])) = 0
        THEN Returns(SelectAction(EntryCmd(opts[IntOf(linkAndParams[1])])))
        ELSE selectWithParams(opts[IntOf(linkAndParams[1])], linkAndParams)

\* The "!" branch: link navigation.
resolveLink(actual, opts) ==
    LET linkAndParams == Tokens(Strip(Drop(actual, 1)))
    IN  IF Len(linkAndParams) = 0 THEN Raises("IndexError")
        ELSE IF ~IsInt(linkAndParams[1]) THEN Shows(<<"Invalid link navigation request!">>)
        ELSE IF IntOf(linkAndParams[1]) - 1 < 0 \/ IntOf(linkAndParams[1]) - 1 >= Len(opts)
        THEN Shows(<<"Unknown menu option!">>)
        ELSE IF Len(EntryParams(opts[IntOf(linkAndParams[1])])) = 0
        THEN IF Len(linkAndParams) /= 1 THEN Shows(<<"Option does not take parameters!">>)
             ELSE Returns(SelectAction(EntryCmd(opts[IntOf(linkAndParams[1])])))
        ELSE selectWithParams(opts[IntOf(linkAndParams[1])], linkAndParams)

\* The "set" branch with the two sides of "=" left untrimmed.
resolveSet_NoTrim(actual) ==
    IF ~Contains(actual, SP) THEN Shows(<<"No setting requested!">>)
    ELSE LET setting == Strip(Drop(actual, Find(actual, SP) + 1))
         IN  IF Contains(setting, "=")
             THEN Returns(SettingAction(Take(setting, Find(setting, "=")),
                                        <<Drop(setting, Find(setting, "=") + 1)>>))
             ELSE Returns(SettingAction(Strip(setting), <<>>))

\* The "set" branch.
resolveSet(actual) ==
    IF ~Contains(actual, SP) THEN Shows(<<"No setting requested!">>)
    ELSE LET setting == Strip(Drop(actual, Find(actual, SP) + 1))
         IN  IF Contains(setting, "=")
             THEN Returns(SettingAction(Strip(Take(setting, Find(setting, "="))),
                                        <<Strip(Drop(setting, Find(setting, "=") + 1))>>))
             ELSE Returns(SettingAction(Strip(setting), <<>>))

\* The whole b"\n" branch on the buffer; an empty line returns None silently.
resolveLine(buffer, opts) ==
    LET actual == Strip(buffer)
    IN  IF Len(actual) = 0 THEN Returns(NoAction)
        ELSE IF actual[1] = "!" THEN resolveLink(actual, opts)
        ELSE IF actual = <<"s", "e", "t">> \/ StartsWith(actual, <<"s", "e", "t", SP>>)
        THEN resolveSet(actual)
        ELSE Shows(<<"Unrecognized command {}", actual>>)

\* ------------------------------------------------------------------------
\* Renderer.displayMenu: the menu text.

\* key(param) of displayMenu: the placeholder's number, "$*" last.  The
\* source's 0xFFFFFFFF is beyond TLC's 32-bit integers; the largest of them
\* stands for it (no placeholder number of the menu comes near either).
sortKey(param) ==
    IF AllDigits(Drop(param, 1)) THEN DigitsVal(Drop(param, 1)) ELSE 2147483647

RECURSIVE sortedParams(_)
\* sorted(entry.params, key=key), a stable sort of the <<placeholder, label>> items.
sortedParams(items) ==
    IF Len(items) = 0 THEN <<>>
    ELSE LET m == CHOOSE i \in 1..Len(items) :
                    /\ \A j \in 1..Len(items) : sortKey(items[i][1]) <= sortKey(items[j][1])
                    /\ \A j \in 1..(i - 1) : sortKey(items[j][1]) /= sortKey(items[i][1])
         IN  <<items[m]>> \o sortedParams(SubSeq(items, 1, m - 1) \o SubSeq(items, m + 1, Len(items)))

\* [f"<{entry.params[p]}>" for p in sorted(...)]
bracketed(items) == [i \in 1..Len(items) |-> <<"<">> \o items[i][2] \o <<">">>]

\* The line of the menu text for the entry at 0-based position index.
entryLine(index, e) ==
    IF Len(EntryParams(e)) > 0
    THEN <<"[", "!">> \o Decimal(index + 1) \o <<SP>>
         \o Join(bracketed(sortedParams(EntryParams(e))), <<SP>>) \o <<"]", SP>> \o e.title
    ELSE <<"[", "!">> \o Decimal(index + 1) \o <<"]", SP>> \o e.title

MenuIntro ==
    <<"T", "h", "e", SP, "f", "o", "l", "l", "o", "w", "i", "n", "g", SP, 
      "p", "r", "o", "g", "r", "a", "m", "s", SP, "a", "r", "e", SP, "a", 
      "v", "a", "i", "l", "a", "b", "l", "e", ".", SP, "T", "o", SP, "r", 
      "u", "n", ",", SP, "t", "y", "p", "e", SP, "\"", "!", "\"", SP, "f", 
      "o", "l", "l", "o", "w", "e", "d", SP, "b", "y", SP, "t", "h", "e", 
      SP, "s", "e", "l", "e", "c", "t", "i", "o", "n", SP, "n", "u", "m", 
      "b", "e", "r", SP, "a", "n", "d", SP, "p", "r", "e", "s", "s", SP, 
      "e", "n", "t", "e", "r", ".", NL, NL>>

\* The text displayMenu hands to displayText.
menuText(settings) ==
    MenuIntro \o Join([i \in 1..Len(settings) |-> entryLine(i - 1, settings[i])], <<NL>>)

\* ------------------------------------------------------------------------
\* The configuration main reads: the menu entries (settingsList).
settingsList ==
    << [title |-> <<"l", "s">>, cmd |-> <<"l", "s">>,
       params |-> <<>>],
       [title |-> <<"e", "c", "h", "o">>, cmd |-> <<"e", SP, "$", "1", SP, "$", "2">>,
       params |-> <<<<<<"$", "1">>, <<"N", "A", "M", "E">>>>>>],
       [title |-> <<"c", "o", "s", "t">>, cmd |-> <<"c", "o", "s", "t", SP, "i", "s", SP, "$", "$", "5", SP, "f", "o", "r", SP, "$", "1">>,
       params |-> <<>>],
       [title |-> <<"e", "s", "c">>, cmd |-> <<"$", "$", "1", SP, "$", "1">>,
       params |-> <<>>],
       [title |-> <<"s", "w", "a", "p">>, cmd |-> <<"$", "2", SP, "$", "1">>,
       params |-> <<>>],
       [title |-> <<"s", "a", "y">>, cmd |-> <<"c", SP, "$", "*">>,
       params |-> <<>>] >>

\* ------------------------------------------------------------------------
\* Renderer.processInput: the line editor.  An input event is a key name or
\* a sequence of bytes; bytes are one-character strings, TAB stands for the
\* bytes below 0x20 and HiByte for the bytes from 0x80 up.
TAB == "\t"
HiByte == "0x80"

Unprintable(b) == b \in {TAB, NL, CR}

\* Terminal.LEFT
leftKey(cur) == IF cur > 1 THEN cur - 1 ELSE cur

\* Terminal.RIGHT moving past the end of the buffer.
rightKey_NoClamp(buffer, cur) == cur + 1

\* Terminal.RIGHT
rightKey(buffer, cur) == IF cur < Len(buffer) + 1 THEN cur + 1 ELSE cur

\* Terminal.BACKSPACE and Terminal.DELETE
\* An erasure that does not blank the cell the buffer has left.
eraseKey_NoBlank(buffer, cur, row) ==
    IF Len(buffer) = 0 \/ cur = 1 THEN [input |-> buffer, cursorPos |-> cur, echo |-> <<>>]
    ELSE [input |-> Take(buffer, cur - 2) \o Drop(buffer, cur - 1), cursorPos |-> cur - 1,
          echo |-> <<TMove(row, cur - 1), TCmd("SET_NORMAL"), TCmd("SET_REVERSE"),
                     TText(Drop(buffer, cur - 1)), TMove(row, cur - 1)>>]

\* Terminal.BACKSPACE and Terminal.DELETE, on the row fetchCursor reports:
\* the buffer, the cursor and the operations sent.
eraseKey(buffer, cur, row) ==
    IF Len(buffer) = 0 THEN [input |-> buffer, cursorPos |-> cur, echo |-> <<>>]
    ELSE IF cur = Len(buffer) + 1
    THEN [input |-> Take(buffer, Len(buffer) - 1), cursorPos |-> cur - 1,
          echo |-> <<TMove(row, cur - 1), TCmd("SET_NORMAL"), TCmd("SET_REVERSE"),
                     TText(<<SP>>), TMove(row, cur - 1)>>]
    ELSE IF cur = 1
    THEN [input |-> buffer, cursorPos |-> cur, echo |-> <<>>]
    ELSE IF cur = 2
    THEN [input |-> Drop(buffer, 1), cursorPos |-> cur - 1,
          echo |-> <<TMove(row, cur - 1), TCmd("SET_NORMAL"), TCmd("SET_REVERSE"),
                     TText(Drop(buffer, 1)), TText(<<SP>>), TMove(row, cur - 1)>>]
    ELSE [input |-> Take(buffer, cur - 2) \o Drop(buffer, cur - 1), cursorPos |-> cur - 1,
          echo |-> <<TMove(row, cur - 1), TCmd("SET_NORMAL"), TCmd("SET_REVERSE"),
                     TText(Drop(buffer, cur - 1)), TText(<<SP>>), TMove(row, cur - 1)>>]

\* bytes(v for v in inputVal if v >= 0x20)
printableBytes(bytes) == SelectSeq(bytes, LAMBDA b : ~Unprintable(b))

\* The final else branch: an event of other bytes.  The result is the buffer,
\* the cursor and the exception decode("ascii") raises, if any.
insertKey(buffer, cur, bytes, cols) ==
    IF ~(Len(buffer) < cols - 1) \/ Len(printableBytes(bytes)) = 0
    THEN [input |-> buffer, cursorPos |-> cur, exc |-> "none"]
    ELSE IF Contains(printableBytes(bytes), HiByte)
    THEN [input |-> buffer, cursorPos |-> cur, exc |-> "UnicodeDecodeError"]
    ELSE IF cur = Len(buffer) + 1
    THEN [input |-> buffer \o printableBytes(bytes), cursorPos |-> cur + 1, exc |-> "none"]
    ELSE [input |-> Take(buffer, cur - 1) \o printableBytes(bytes) \o Drop(buffer, cur - 1),
          cursorPos |-> cur + 1, exc |-> "none"]

\* What the final else branch sends on the row fetchCursor reports.
insertEcho(buffer, cur, bytes, cols, row) ==
    IF insertKey(buffer, cur, bytes, cols).input = buffer THEN <<>>
    ELSE <<TCmd("SET_NORMAL"), TCmd("SET_REVERSE"),
           TText(Drop(insertKey(buffer, cur, bytes, cols).input, cur - 1)),
           TMove(row, cur + 1)>>

\* What Terminal.LEFT and Terminal.RIGHT send when they move the cursor from
\* cur to new.
moveEcho(cur, new, row) == IF new = cur THEN <<>> ELSE <<TMove(row, new)>>

\* ------------------------------------------------------------------------
\* State.
VARIABLES
    wtext,      \* wordWrap: the text handed to the wrapper
    wcols,      \* wordWrap: terminal.columns at the call
    wlines,     \* wordWrap: the wrapped lines, as displayText stores them
    wdone,      \* wordWrap: whether the wrapper has run
    remaining,  \* wordWrap: its local text, what is left to wrap
    newText,    \* wordWrap: its local newText
    curLine,    \* wordWrap: its local curLine
    entry,      \* an Entry: its cmd template and its params overrides
    eparams,    \* Entry.params: the items of the dictionary it returned
    eread,      \* Entry.params: whether it has been read
    columns,    \* terminal.columns
    rows,       \* RendererCore.rows of the viewport
    text,       \* TextRendererCore.text: the wrapped lines
    line,       \* TextRendererCore.line: the scroll offset
    region,     \* whether a scroll region set on the terminal is in force
    sent,       \* the terminal operations of the last call, when it returned
    outcome,    \* how the last call ended: "none", "returned" or "raised"
    lastOp,     \* the name of the last call
    pc,         \* main: "connect", "draw", "loop", "run", "crashed" or "exited"
    bootCols,   \* the width the terminal is in when it is connected
    input,      \* Renderer.input
    cursorPos,  \* Renderer.cursorPos
    options,    \* Renderer.options
    lastError,  \* Renderer.lastError: the message on the status row
    cmd,        \* main's cmd: <<>> (None) or <<command>>
    exc,        \* the exception that ended main, or "none"
    lastKey,    \* the input event main handled last
    submitted,  \* the trimmed line of the last b"\n" event
    action,     \* what the last processInput returned
    shown,      \* the message the last processInput handed to displayError
    typed,      \* printable events taken since the buffer was cleared
    queue,      \* the terminal's input queue: the events not yet read
    taken,      \* how many events main's last read took off the queue
    echo        \* what the last event made the line editor send, if it was an
                \* editing key or a printable event, and <<>> otherwise

wrapVars == <<wtext, wcols, wlines, wdone>>
loopVars == <<remaining, newText, curLine>>
entryVars == <<entry, eparams, eread>>
pureVars == <<wtext, wcols, wlines, wdone, remaining, newText, curLine, entry, eparams, eread>>
viewVars == <<columns, rows, text, line, region, sent, outcome, lastOp>>
hostVars == <<pc, bootCols, input, cursorPos, options, lastError, cmd, exc,
              lastKey, submitted, action, shown, typed, queue, taken, echo>>
vars == <<wtext, wcols, wlines, wdone, remaining, newText, curLine, entry, eparams, eread,
          columns, rows, text, line, region, sent, outcome,
          lastOp, pc, bootCols, input, cursorPos, options, lastError, cmd, exc,
          lastKey, submitted, action, shown, typed, queue, taken, echo>>

Max(a, b) == IF a >= b THEN a ELSE b

\* ------------------------------------------------------------------------
\* The word-wrap specification: every text up to MaxLen characters over
\* WrapChars, every width up to MaxCols.
WrapChars == {"a", "b", SP, NL, CR}

RECURSIVE TextsOver(_, _)
TextsOver(chars, n) ==
    IF n = 0 THEN {<<>>}
    ELSE {<<c>> \o t : c \in chars, t \in TextsOver(chars, n - 1)}

WrapTexts == UNION {TextsOver(WrapChars, n) : n \in 0..MaxLen}

\* The viewport as its constructor leaves it, on a connected terminal.
ViewIdle ==
    /\ text = <<>>
    /\ line = 0
    /\ region = FALSE
    /\ sent = <<>>
    /\ outcome = "none"
    /\ lastOp = "init"

\* A Renderer as its constructor leaves it, with no host loop around it.
HostIdle ==
    /\ pc = "none"
    /\ bootCols = columns
    /\ input = <<>>
    /\ cursorPos = 1
    /\ options = <<>>
    /\ lastError = NoError
    /\ cmd = <<>>
    /\ exc = "none"
    /\ lastKey = "none"
    /\ submitted = <<>>
    /\ action = NoAction
    /\ shown = NoError
    /\ typed = 0
    /\ queue = <<>>
    /\ taken = 0
    /\ echo = <<>>

WrapIdle ==
    /\ wtext = <<>>
    /\ wcols = 1
    /\ wlines = <<>>
    /\ wdone = TRUE

\* No wordWrap call under way.
LoopIdle ==
    /\ remaining = <<>>
    /\ newText = <<>>
    /\ curLine = <<>>

\* No Entry under study.
EntryIdle ==
    /\ entry = [cmd |-> <<>>, params |-> <<>>]
    /\ eparams = <<>>
    /\ eread = TRUE

PureIdle ==
    /\ WrapIdle
    /\ LoopIdle
    /\ EntryIdle

\* A sentence to wrap at ten columns, besides the short texts.
WrapSentence ==
    <<"T", "h", "e", SP, "q", "u", "i", "c", "k", SP, "b", "r", "o", "w", "n", SP,
      "f", "o", "x">>

InitWrap ==
    /\ \/ wtext \in WrapTexts /\ wcols \in 1..MaxCols
       \/ wtext = WrapSentence /\ wcols = 10
    /\ wlines = <<>>
    /\ wdone = FALSE
    /\ LoopIdle
    /\ EntryIdle
    /\ columns = wcols
    /\ rows = 1
    /\ ViewIdle
    /\ HostIdle

Wrap ==
    /\ ~wdone
    /\ wlines' = WrappedLines(wtext, wcols)
    /\ wdone' = TRUE
    /\ UNCHANGED <<wtext, wcols>>
    /\ UNCHANGED loopVars
    /\ UNCHANGED entryVars
    /\ UNCHANGED viewVars
    /\ UNCHANGED hostVars

NextWrap == Wrap

SpecWrap == InitWrap /\ [][NextWrap]_vars

\* C10: every line wordWrap produces (the pieces of its result split on
\* newline, as displayText stores them) is at most terminal.columns long.
C10_WrapBound == wdone => \A i \in 1..Len(wlines) : Len(wlines[i]) <= wcols

\* A text longer than the width has been wrapped into several lines, one of
\* them filled to the full width.
C10_Witness ==
    /\ wdone
    /\ Len(wtext) > wcols
    /\ Len(wlines) >= 2
    /\ \E i \in 1..Len(wlines) : Len(wlines[i]) = wcols

\* C11: wrapping "The quick brown fox" at ten columns yields exactly the
\* lines "The quick" and "brown fox", and in a text without newlines, where
\* every line but the last was ended by a forced wrap, no such line ends
\* with a space.
C11_SpaceDroppedAtWrap ==
    wdone =>
        /\ (wtext = WrapSentence) =>
              wlines = << <<"T", "h", "e", SP, "q", "u", "i", "c", "k">>,
                          <<"b", "r", "o", "w", "n", SP, "f", "o", "x">> >>
        /\ ~Contains(wtext, NL) =>
              \A i \in 1..(Len(wlines) - 1) :
                 Len(wlines[i]) > 0 => wlines[i][Len(wlines[i])] /= SP

RECURSIVE unwraps(_, _, _, _)
\* out, from position j on, is inp from position i on with newlines put in:
\* a newline of out is a newline of inp, or one put in at a wrap, in place of
\* a space of inp or of nothing.  A newline put in stands between two
\* characters that are not newlines, so that it makes no empty line.
unwraps(inp, i, out, j) ==
    IF j > Len(out) THEN i > Len(inp)
    ELSE IF out[j] /= NL
    THEN i <= Len(inp) /\ inp[i] = out[j] /\ unwraps(inp, i + 1, out, j + 1)
    ELSE \/ i <= Len(inp) /\ inp[i] = NL /\ unwraps(inp, i + 1, out, j + 1)
         \/ /\ j > 1 /\ out[j - 1] /= NL
            /\ j < Len(out) /\ out[j + 1] /= NL
            /\ \/ unwraps(inp, i, out, j + 1)
               \/ i <= Len(inp) /\ inp[i] = SP /\ unwraps(inp, i + 1, out, j + 1)

\* C12: taking out the newlines wordWrap put in gives back the text (its
\* "\r\n" read as "\n") less at most the spaces at the wrap points: no
\* character is dropped, every newline of the text is kept and no empty line
\* is made.
C12_WrapPreservesText ==
    wdone => unwraps(ReplaceCRLF(wtext), 1, Join(wlines, <<NL>>), 1)

\* ------------------------------------------------------------------------
\* The viewport specification: one TextRendererCore under any sequence of
\* calls on texts drawn from ViewTexts.  Each terminal operation of a call
\* may raise the transport error; f is the number of operations that got
\* through.  A viewport whose call raised is discarded, as main does, and a
\* new one is constructed.
ViewTexts ==
    { <<>>,
      <<"a">>,
      <<"a", NL, "a">>,
      <<"a", "a", "a", "a", "a">>,
      <<"a", NL, "a", NL, "a", NL, "a">>,
      <<"[", "a", NL, "a", "]", NL, "a">>,
      <<"[", "a", "[", "b", "]", "c", "]">> }

InitView ==
    /\ PureIdle
    /\ columns \in 1..MaxViewCols
    /\ rows \in 1..MaxRows
    /\ ViewIdle
    /\ HostIdle

\* The terminal's side of a call that sends ops: the first f get through.
Transmit(name, ops, f) ==
    /\ sent' = IF f = Len(ops) THEN ops ELSE <<>>
    /\ region' = RegionAfter(Take(ops, f), region)
    /\ outcome' = IF f = Len(ops) THEN "returned" ELSE "raised"
    /\ lastOp' = name

\* displayText(t) for a text of the given set.
DisplayTextOf(texts) ==
    /\ outcome /= "raised"
    /\ \E t \in texts :
         LET c == displayTextCall(t, rows, columns)
         IN  \E f \in 0..Len(c.ops) :
               /\ text' = c.text
               \* self.line = 0 comes after moveCursor and setScrollRegion
               /\ line' = IF f < 2 THEN line ELSE 0
               /\ Transmit("displayText", c.ops, f)
    /\ UNCHANGED <<columns, rows>>
    /\ UNCHANGED pureVars
    /\ UNCHANGED hostVars

DisplayText == DisplayTextOf(ViewTexts)

\* A call that assigns the offset and then redraws.
Move(name, c) ==
    /\ outcome /= "raised"
    /\ \E f \in 0..Len(c.ops) :
         /\ line' = c.line
         /\ Transmit(name, c.ops, f)
    /\ UNCHANGED <<columns, rows, text>>
    /\ UNCHANGED pureVars
    /\ UNCHANGED hostVars

ScrollUp == Move("scrollUp", scrollUpCall(text, line, rows, columns))

ScrollDown == Move("scrollDown", scrollDownCall(text, line, rows, columns))

PageUp == Move("pageUp", pageUpCall(text, line, rows, columns))

PageDown == Move("pageDown", pageDownCall(text, line, rows, columns))

GoToTop == Move("goToTop", goToTopCall(text, line, rows, columns))

GoToBottom == Move("goToBottom", goToBottomCall(text, line, rows, columns))

\* TextRendererCore.__init__ on a newly connected terminal.
NewViewport ==
    /\ outcome = "raised"
    /\ text' = <<>>
    /\ line' = 0
    /\ region' = FALSE
    /\ sent' = <<>>
    /\ outcome' = "none"
    /\ lastOp' = "init"
    /\ UNCHANGED <<columns, rows>>
    /\ UNCHANGED pureVars
    /\ UNCHANGED hostVars

NextView ==
    \/ DisplayText
    \/ ScrollUp
    \/ ScrollDown
    \/ PageUp
    \/ PageDown
    \/ GoToTop
    \/ GoToBottom
    \/ NewViewport

SpecView == InitView /\ [][NextView]_vars

\* C6: after any sequence of displayText, scrollUp, scrollDown, pageUp,
\* pageDown, goToTop and goToBottom calls, the scroll offset lies between 0
\* and max(0, totalLines - rows).
C6_OffsetInBounds ==
    outcome /= "raised" => 0 <= line /\ line <= Max(0, Len(text) - rows)

\* A scroll or a jump has moved the window to the last position it may take,
\* below the top.
C6_Witness ==
    /\ outcome = "returned"
    /\ lastOp \in {"scrollDown", "pageDown", "goToBottom"}
    /\ line > 0
    /\ line = Len(text) - rows

\* C8: whenever one of the viewport's calls has returned or raised, the
\* scroll region it set is no longer in force.
C8_RegionClearedOnEveryExit == outcome \in {"returned", "raised"} => ~region

\* ------------------------------------------------------------------------
\* The markup specification: displayText on a terminal wide enough to show
\* a bracketed line unwrapped.
\* The longest of the enumerated lines.
MaxScanLen == 4
\* terminal.columns of the markup specification.
ScanCols == 8

\* Every line over a letter and the two brackets, and one longer nested run.
ScanTexts ==
    TextsOver({"a", "[", "]"}, MaxScanLen) \cup {<<"[", "a", "[", "b", "]", "c", "]">>}

InitScan ==
    /\ PureIdle
    /\ columns = ScanCols
    /\ rows \in 1..MaxRows
    /\ ViewIdle
    /\ HostIdle

DisplayLine == DisplayTextOf(ScanTexts)

NextScan ==
    \/ DisplayLine
    \/ NewViewport

SpecScan == InitScan /\ [][NextScan]_vars

\* The number of "[" less the number of "]" among the first k characters.
RECURSIVE bracketDepth(_, _)
bracketDepth(t, k) ==
    IF k = 0 THEN 0
    ELSE bracketDepth(t, k - 1)
         + (IF t[k] = "[" THEN 1 ELSE IF t[k] = "]" THEN -1 ELSE 0)

\* Every "]" closes an earlier "[" and every "[" is closed.
balanced(t) ==
    /\ bracketDepth(t, Len(t)) = 0
    /\ \A k \in 0..Len(t) : bracketDepth(t, k) >= 0

\* The line with each character marked bold or not: bold from the "[" that
\* opens an outermost run to the "]" that closes it.
outermostStyled(t) ==
    [k \in 1..Len(t) |-> <<t[k], t[k] = "[" \/ bracketDepth(t, k - 1) >= 1>>]

RECURSIVE styledChars(_, _)
\* The characters the terminal was sent, each with the style then in force.
styledChars(ops, bold) ==
    IF Len(ops) = 0 THEN <<>>
    ELSE IF Head(ops) = TCmd("SET_BOLD") THEN styledChars(Tail(ops), TRUE)
    ELSE IF Head(ops) = TCmd("SET_NORMAL") THEN styledChars(Tail(ops), FALSE)
    ELSE IF Head(ops)[1] = "text" /\ Head(ops)[2] /= <<NL>>
    THEN [k \in 1..Len(Head(ops)[2]) |-> <<Head(ops)[2][k], bold>>]
         \o styledChars(Tail(ops), bold)
    ELSE styledChars(Tail(ops), bold)

\* The scan of the redraw displayText has just done.
lastScan == DisplayScan(text, 0, rows, columns, 0, rows, FALSE)

\* C13: in the redraw of a line whose brackets are balanced only the
\* outermost bracket of a nested run changes style (for "[a[b]c]" every
\* character is sent in bold), the nesting depth is 0 after the line and is
\* never negative during it.
C13_OutermostBracketOnly ==
    (outcome = "returned" /\ lastOp = "displayText" /\ Len(text) = 1 /\ balanced(text[1]))
        => /\ styledChars(sent, FALSE) = outermostStyled(text[1])
           /\ lastScan.depth = 0
           /\ lastScan.low >= 0

\* ------------------------------------------------------------------------
\* Bounds of the host specifications.
\* terminal.rows of the connected terminal; the viewport has four rows fewer.
TermRows == 11
\* Printable events taken into one buffer in the command specification.
MaxEvents == 1
\* The widest terminal of the editing specification.
MaxEditCols == 4

Cols80 == 80
Cols132 == 132

\* ------------------------------------------------------------------------
\* The host: main and the Renderer it drives.

\* What displayMenu draws at a width: the wrapped menu.
menuLines(cols) == WrappedLines(menuText(settingsList), cols)

\* The bookkeeping of a step of the line editor that sent ops.
Echoed(key, ops) ==
    /\ lastKey' = key
    /\ submitted' = <<>>
    /\ action' = NoAction
    /\ shown' = NoError
    /\ echo' = ops

\* The bookkeeping of a step that is not a submission.
Handled(key) == Echoed(key, <<>>)

\* displayMenu on a terminal of the given width: clearInput, the options
\* list and a new viewport showing the menu from its first line.
MenuDrawn(cols) ==
    /\ input' = <<>>
    /\ cursorPos' = 1
    /\ typed' = 0
    /\ lastError' = NoError
    /\ options' = settingsList
    /\ text' = menuLines(cols)
    /\ line' = 0

\* clearInput
InputCleared ==
    /\ input' = <<>>
    /\ cursorPos' = 1
    /\ typed' = 0
    /\ lastError' = NoError

\* spawnTerminalAndRenderer, and the cmd = None before it.
Connect ==
    /\ pc = "connect"
    /\ pc' = "draw"
    /\ columns' = bootCols
    /\ input' = <<>>
    /\ cursorPos' = 1
    /\ typed' = 0
    /\ options' = <<>>
    /\ lastError' = NoError
    /\ text' = <<>>
    /\ line' = 0
    /\ cmd' = <<>>
    /\ Handled("none")
    /\ UNCHANGED <<bootCols, exc, rows, region, sent, outcome, lastOp>>
    /\ UNCHANGED pureVars
    /\ UNCHANGED <<queue, taken>>

\* renderer.displayMenu(title, settingsList); renderer.clearInput(), before
\* the try block: a transport error here leaves main.
DrawMenu ==
    /\ pc = "draw"
    /\ \E fails \in BOOLEAN :
         IF fails
         THEN /\ pc' = "crashed"
              /\ exc' = "TerminalException"
              /\ UNCHANGED <<input, cursorPos, typed, lastError, options, text, line>>
         ELSE /\ pc' = "loop"
              /\ exc' = exc
              /\ MenuDrawn(columns)
    /\ Handled("none")
    /\ UNCHANGED <<bootCols, columns, cmd, rows, region, sent, outcome, lastOp>>
    /\ UNCHANGED pureVars
    /\ UNCHANGED <<queue, taken>>

\* A key that only edits: the frame of the steps below.
EditFrame ==
    /\ UNCHANGED <<pc, bootCols, options, lastError, cmd, exc, typed>>
    /\ UNCHANGED viewVars
    /\ UNCHANGED pureVars
    /\ UNCHANGED <<queue, taken>>

KeyLeft ==
    /\ pc = "loop"
    /\ cursorPos' = leftKey(cursorPos)
    /\ input' = input
    /\ Echoed("LEFT", moveEcho(cursorPos, leftKey(cursorPos), TermRows))
    /\ EditFrame

KeyRight ==
    /\ pc = "loop"
    /\ cursorPos' = rightKey(input, cursorPos)
    /\ input' = input
    /\ Echoed("RIGHT", moveEcho(cursorPos, rightKey(input, cursorPos), TermRows))
    /\ EditFrame

KeyErase ==
    /\ pc = "loop"
    /\ \E key \in {"BACKSPACE", "DELETE"} :
         /\ input' = eraseKey(input, cursorPos, TermRows).input
         /\ cursorPos' = eraseKey(input, cursorPos, TermRows).cursorPos
         /\ Echoed(key, eraseKey(input, cursorPos, TermRows).echo)
    /\ EditFrame

KeyReturn ==
    /\ pc = "loop"
    /\ UNCHANGED <<input, cursorPos>>
    /\ Handled("CR")
    /\ EditFrame

\* Terminal.UP and Terminal.DOWN: the viewport scrolls by one line.
KeyUp ==
    /\ pc = "loop"
    /\ line' = scrollUpCall(text, line, rows, columns).line
    /\ Handled("UP")
    /\ UNCHANGED <<pc, bootCols, input, cursorPos, options, lastError, cmd, exc, typed>>
    /\ UNCHANGED <<columns, rows, text, region, sent, outcome, lastOp>>
    /\ UNCHANGED pureVars
    /\ UNCHANGED <<queue, taken>>

KeyDown ==
    /\ pc = "loop"
    /\ line' = scrollDownCall(text, line, rows, columns).line
    /\ Handled("DOWN")
    /\ UNCHANGED <<pc, bootCols, input, cursorPos, options, lastError, cmd, exc, typed>>
    /\ UNCHANGED <<columns, rows, text, region, sent, outcome, lastOp>>
    /\ UNCHANGED pureVars
    /\ UNCHANGED <<queue, taken>>

\* An event of other bytes, drawn from events.  With cap > 0 at most cap
\* such events go into one buffer.
KeyPrintable(events, cap) ==
    /\ pc = "loop"
    /\ cap > 0 => typed < cap
    /\ \E bytes \in events :
         LET r == insertKey(input, cursorPos, bytes, columns)
         IN  /\ input' = r.input
             /\ cursorPos' = r.cursorPos
             /\ typed' = IF cap > 0 /\ r.input /= input THEN typed + 1 ELSE typed
             /\ exc' = r.exc
             /\ pc' = IF r.exc = "none" THEN "loop" ELSE "crashed"
             /\ Echoed("printable", insertEcho(input, cursorPos, bytes, columns, TermRows))
    /\ UNCHANGED <<bootCols, options, lastError, cmd>>
    /\ UNCHANGED viewVars
    /\ UNCHANGED pureVars
    /\ UNCHANGED <<queue, taken>>

\* A handling that rebuilds the menu for every valid width, the current one
\* included.
ApplySetting_AlwaysRedraws(setting, value) ==
    IF setting \in {<<"c", "o", "l", "s">>, <<"c", "o", "l", "u", "m", "n", "s">>}
    THEN IF value \notin {<<<<"8", "0">>>>, <<<<"1", "3", "2">>>>}
         THEN /\ lastError' = <<"Unrecognized column setting {}", value>>
              /\ UNCHANGED <<input, cursorPos, typed, options, text, line, columns>>
         ELSE LET want == IF value = <<<<"8", "0">>>> THEN Cols80 ELSE Cols132
              IN  /\ columns' = want
                  /\ MenuDrawn(want)
    ELSE /\ lastError' = <<"Unrecognized setting {}", setting>>
         /\ UNCHANGED <<input, cursorPos, typed, options, text, line, columns>>

\* main's handling of a SettingAction.
ApplySetting(setting, value) ==
    IF setting \in {<<"c", "o", "l", "s">>, <<"c", "o", "l", "u", "m", "n", "s">>}
    THEN IF value \notin {<<<<"8", "0">>>>, <<<<"1", "3", "2">>>>}
         THEN /\ lastError' = <<"Unrecognized column setting {}", value>>
              /\ UNCHANGED <<input, cursorPos, typed, options, text, line, columns>>
         ELSE LET want == IF value = <<<<"8", "0">>>> THEN Cols80 ELSE Cols132
              IN  IF columns /= want
                  THEN /\ columns' = want
                       /\ MenuDrawn(want)
                  ELSE /\ InputCleared
                       /\ UNCHANGED <<options, text, line, columns>>
    ELSE /\ lastError' = <<"Unrecognized setting {}", setting>>
         /\ UNCHANGED <<input, cursorPos, typed, options, text, line, columns>>

\* A handling that sets cmd before it writes the status row.
selectCommand_RunsAnyway(executable, failed) ==
    [cmd |-> <<executable>>, pc |-> "run"]

\* main's handling of a SelectAction: displayError("Loading requested
\* program...") and then cmd = action.executable.  When displayError raises
\* TerminalException, failed, the assignment is not reached and main goes
\* round its outer loop with cmd None.
selectCommand(executable, failed) ==
    IF failed
    THEN [cmd |-> <<>>, pc |-> "connect"]
    ELSE [cmd |-> <<executable>>, pc |-> "run"]

\* b"\n": processInput resolves the buffer and main acts on what it returns.
KeyNewline ==
    /\ pc = "loop"
    /\ LET r == resolveLine(input, options)
       IN  /\ lastKey' = "LF"
           /\ echo' = <<>>
           /\ submitted' = Strip(input)
           /\ action' = r.action
           /\ shown' = r.error
           /\ IF r.exc /= "none"
              THEN /\ pc' = "crashed"
                   /\ exc' = r.exc
                   /\ UNCHANGED <<input, cursorPos, typed, options, lastError, text, line,
                                  columns, cmd>>
              ELSE IF r.action = NoAction
              THEN /\ lastError' = IF Len(Strip(input)) = 0 THEN lastError ELSE r.error
                   /\ UNCHANGED <<pc, exc, input, cursorPos, typed, options, text, line,
                                  columns, cmd>>
              ELSE IF r.action[1] = "Select"
              THEN /\ \E failed \in BOOLEAN :
                        /\ lastError' = IF failed THEN lastError
                                         ELSE <<"Loading requested program...">>
                        /\ cmd' = selectCommand(r.action[2], failed).cmd
                        /\ pc' = selectCommand(r.action[2], failed).pc
                   /\ UNCHANGED <<exc, input, cursorPos, typed, options, text, line, columns>>
              ELSE /\ ApplySetting(r.action[2], r.action[3])
                   /\ UNCHANGED <<pc, exc, cmd>>
    /\ UNCHANGED <<bootCols, rows, region, sent, outcome, lastOp>>
    /\ UNCHANGED pureVars
    /\ UNCHANGED <<queue, taken>>

\* TerminalException inside the try block, from recvInput or from any
\* terminal operation of the handlers above: main goes round its outer loop.
\* The Renderer it leaves behind is replaced by Connect.
LoseTerminal ==
    /\ pc = "loop"
    /\ pc' = "connect"
    /\ Handled("none")
    /\ UNCHANGED <<bootCols, input, cursorPos, options, lastError, cmd, exc, typed>>
    /\ UNCHANGED viewVars
    /\ UNCHANGED pureVars
    /\ UNCHANGED <<queue, taken>>

\* subprocess.run of the selected command, then round the outer loop.
RunCommand ==
    /\ pc = "run"
    /\ pc' = "connect"
    /\ Handled("none")
    /\ UNCHANGED <<bootCols, input, cursorPos, options, lastError, cmd, exc, typed>>
    /\ UNCHANGED viewVars
    /\ UNCHANGED pureVars
    /\ UNCHANGED <<queue, taken>>

\* KeyboardInterrupt inside the try block.
Interrupt ==
    /\ pc = "loop"
    /\ pc' = "exited"
    /\ Handled("none")
    /\ UNCHANGED <<bootCols, input, cursorPos, options, lastError, cmd, exc, typed>>
    /\ UNCHANGED viewVars
    /\ UNCHANGED pureVars
    /\ UNCHANGED <<queue, taken>>

HostStart ==
    /\ PureIdle
    /\ pc = "connect"
    /\ columns = bootCols
    /\ rows = TermRows - 4
    /\ ViewIdle
    /\ input = <<>>
    /\ cursorPos = 1
    /\ options = <<>>
    /\ lastError = NoError
    /\ cmd = <<>>
    /\ exc = "none"
    /\ lastKey = "none"
    /\ submitted = <<>>
    /\ action = NoAction
    /\ shown = NoError
    /\ typed = 0
    /\ taken = 0
    /\ echo = <<>>

\* ------------------------------------------------------------------------
\* The command specification: the host on an 80 or 132 column terminal,
\* the user sending whole lines from CmdLines as one event each.
CmdLines ==
    { <<"!">>,
      <<"!", "x">>,
      <<"!", "9">>,
      <<"!", "0">>,
      <<"!", "7">>,
      <<"!", "1">>,
      <<"!", "1", SP, "a">>,
      <<"!", "2">>,
      <<"!", "2", SP, "a">>,
      <<"!", "2", SP, "a", ";", "b">>,
      <<"!", "2", SP, "a", SP, "b">>,
      <<"!", "2", SP, "$", "2", SP, "b">>,
      <<"!", "2", SP, "a", ";", "b", SP, "c">>,
      <<"!", "3", SP, "t", "e", "a">>,
      <<"!", "4", SP, "t">>,
      <<"!", "5", SP, "a", ";", "b">>,
      <<"!", "5", SP, "a", SP, "b">>,
      <<"!", "6", SP, "a", SP, "b">>,
      <<"!", "6", SP, "a", "|", "b">>,
      <<"s", "e", "t">>,
      <<"s", "e", "t", SP, "x">>,
      <<"s", "e", "t", SP, "c", "o", "l", "s">>,
      <<"s", "e", "t", SP, "c", "o", "l", "s", "=", "9">>,
      <<"s", "e", "t", SP, "c", "o", "l", "u", "m", "n", "s", "=", "8", "0">>,
      <<"s", "e", "t", SP, "c", "o", "l", "s", "=", "8", "0">>,
      <<"s", "e", "t", SP, "c", "o", "l", "s", SP, "=", SP, "1", "3", "2", SP>>,
      <<"x">> }

Init ==
    /\ bootCols \in {Cols80, Cols132}
    /\ HostStart
    /\ queue = <<>>

Next ==
    \/ Connect
    \/ DrawMenu
    \/ KeyUp
    \/ KeyDown
    \/ KeyReturn
    \/ KeyPrintable(CmdLines, MaxEvents)
    \/ KeyNewline
    \/ LoseTerminal
    \/ RunCommand
    \/ Interrupt

Spec == Init /\ [][Next]_vars

\* ------------------------------------------------------------------------
\* The submitted line as the claims below read it: its tokens after the "!",
\* the entry they select and the value each placeholder is given.
submittedTokens == Tokens(Strip(Drop(submitted, 1)))

\* The line names an entry of the menu that has placeholders.
selectsWithPlaceholders ==
    /\ lastKey = "LF"
    /\ Len(submitted) > 0
    /\ submitted[1] = "!"
    /\ Len(submittedTokens) > 0
    /\ IsInt(submittedTokens[1])
    /\ IntOf(submittedTokens[1]) \in 1..Len(options)
    /\ Len(EntryParams(options[IntOf(submittedTokens[1])])) > 0

chosenEntry == options[IntOf(submittedTokens[1])]

isSupplied(param) ==
    \/ param = <<"$", "*">>
    \/ /\ DigitsVal(Drop(param, 1)) >= 1
       /\ DigitsVal(Drop(param, 1)) < Len(submittedTokens)

suppliedValue(param) ==
    IF param = <<"$", "*">> THEN Join(Tail(submittedTokens), <<SP>>)
    ELSE submittedTokens[DigitsVal(Drop(param, 1)) + 1]

hasShellChar(val) ==
    \E i \in 1..Len(val) : val[i] \in {";", "<", ">", "(", ")", "|", "&"}

\* The placeholder of e that stands at 1-based position i of its template,
\* the longest if several do; <<>> if none does.
placeholderAt(e, i) ==
    LET here == {k \in 1..Len(EntryParams(e)) :
                   StartsWith(Drop(e.cmd, i - 1), EntryParams(e)[k][1])}
    IN  IF here = {} THEN <<>>
        ELSE EntryParams(e)[CHOOSE k \in here :
                              \A j \in here : Len(EntryParams(e)[j][1]) <= Len(EntryParams(e)[k][1])][1]

RECURSIVE expandTemplate(_, _)
\* The template of e from position i on, read once from left to right: "$$"
\* becomes "$", a placeholder becomes the value supplied for it, and any
\* other character stays.  What a value contains is never read again.
expandTemplate(e, i) ==
    IF i > Len(e.cmd) THEN <<>>
    ELSE IF StartsWith(Drop(e.cmd, i - 1), <<"$", "$">>)
    THEN <<"$">> \o expandTemplate(e, i + 2)
    ELSE IF placeholderAt(e, i) /= <<>>
    THEN suppliedValue(placeholderAt(e, i)) \o expandTemplate(e, i + Len(placeholderAt(e, i)))
    ELSE <<e.cmd[i]>> \o expandTemplate(e, i + 1)

isSelect == action /= NoAction /\ action[1] = "Select"

\* The template holds the escape "$$".
hasEscape(template) ==
    \E i \in 1..(Len(template) - 1) : template[i] = "$" /\ template[i + 1] = "$"

\* C1: every submitted line with a non-empty trimmed buffer gets an Action or
\* a displayed error, and no exception leaves processInput on it.
C1_SubmissionAnswered ==
    (lastKey = "LF" /\ submitted /= <<>>)
        => /\ exc = "none"
           /\ (action /= NoAction \/ shown /= NoError)

\* C2: a Select for an entry with placeholders (and no "$$" in its template)
\* carries the template with each placeholder occurrence replaced once by its
\* own value; the "$" characters of a value are not read as placeholders.
C2_ValuesNotReinterpreted ==
    (selectsWithPlaceholders /\ isSelect /\ ~hasEscape(chosenEntry.cmd))
        => action[2] = expandTemplate(chosenEntry, 1)

\* C3: in a Select for an entry whose template holds "$$", every "$$" comes
\* out as one literal "$" and only the real placeholders are replaced.
C3_EscapeStaysLiteral ==
    (selectsWithPlaceholders /\ isSelect /\ hasEscape(chosenEntry.cmd))
        => action[2] = expandTemplate(chosenEntry, 1)

\* The first placeholder, in the order Entry.params lists them, that is
\* given no value or a value with a disallowed character; 0 if none is.
firstRefused ==
    LET ps == EntryParams(chosenEntry)
        bad == {k \in 1..Len(ps) :
                  ~isSupplied(ps[k][1]) \/ hasShellChar(suppliedValue(ps[k][1]))}
    IN  IF bad = {} THEN 0 ELSE CHOOSE k \in bad : \A j \in bad : k <= j

\* C4, as the code has it: no Select carries a value with one of the
\* characters ; < > ( ) | & ; a line that gives a placeholder such a value
\* returns no Action and shows the error of the first placeholder, in the
\* order of first appearance in the template, that is missing or refused:
\* "Option requires parameter <label>" if it is missing, else
\* "Parameter <label> cannot take value <value>".
C4_NoSelectWithShellChars ==
    selectsWithPlaceholders =>
        LET ps == EntryParams(chosenEntry)
        IN  /\ isSelect =>
                 \A k \in 1..Len(ps) :
                    isSupplied(ps[k][1]) /\ ~hasShellChar(suppliedValue(ps[k][1]))
            /\ (\E k \in 1..Len(ps) :
                   isSupplied(ps[k][1]) /\ hasShellChar(suppliedValue(ps[k][1])))
                 => /\ action = NoAction
                    /\ firstRefused > 0
                    /\ shown = IF ~isSupplied(ps[firstRefused][1])
                               THEN <<"Option requires parameter {}", ps[firstRefused][2]>>
                               ELSE <<"Parameter {} cannot take value {}", ps[firstRefused][2],
                                      suppliedValue(ps[firstRefused][1])>>

\* A line whose first token holds a semicolon has been refused with the
\* error that names the label NAME and the token.
C4_Witness ==
    /\ selectsWithPlaceholders
    /\ action = NoAction
    /\ shown = <<"Parameter {} cannot take value {}", <<"N", "A", "M", "E">>,
                 <<"a", ";", "b">>>>

\* C4 as stated: a line that gives a placeholder a value with a disallowed
\* character returns no Action and shows an error naming that placeholder's
\* label and the offending value.
C4_NamesOffendingValue ==
    selectsWithPlaceholders =>
        LET ps == EntryParams(chosenEntry)
            bad == {k \in 1..Len(ps) :
                      isSupplied(ps[k][1]) /\ hasShellChar(suppliedValue(ps[k][1]))}
        IN  bad /= {} =>
              /\ action = NoAction
              /\ \E k \in bad :
                   shown = <<"Parameter {} cannot take value {}", ps[k][2],
                             suppliedValue(ps[k][1])>>

\* The line is "!" and an integer, with or without more tokens.
selectsIndex ==
    /\ lastKey = "LF"
    /\ Len(submitted) > 0
    /\ submitted[1] = "!"
    /\ Len(submittedTokens) > 0
    /\ IsInt(submittedTokens[1])

\* C14: an index outside 1..optionCount shows "Unknown menu option!" and
\* returns no Action; an entry without placeholders, counted from 1 in the
\* order displayMenu was given, returns Select(entry.cmd) when the index is
\* the only token and otherwise shows "Option does not take parameters!" and
\* returns no Action.
C14_IndexRules ==
    selectsIndex =>
        LET k == IntOf(submittedTokens[1])
        IN  /\ options = settingsList
            /\ IF k \notin 1..Len(settingsList)
               THEN action = NoAction /\ shown = <<"Unknown menu option!">>
               ELSE Len(EntryParams(settingsList[k])) = 0 =>
                      IF Len(submittedTokens) = 1
                      THEN /\ action = SelectAction(EntryCmd(settingsList[k]))
                           /\ shown = NoError
                      ELSE /\ action = NoAction
                           /\ shown = <<"Option does not take parameters!">>

\* The first entry, which has no placeholders, has been selected by "!1".
C14_Witness ==
    /\ selectsIndex
    /\ submitted = <<"!", "1">>
    /\ action = SelectAction(<<"l", "s">>)

\* The label a positional placeholder goes by: the one configured for it in
\* the entry, else PARAM and its number.
positionalLabel(e, param) ==
    IF \E i \in 1..Len(e.params) : e.params[i][1] = param
    THEN e.params[CHOOSE i \in 1..Len(e.params) : e.params[i][1] = param][2]
    ELSE <<"P", "A", "R", "A", "M">> \o Drop(param, 1)

\* The placeholders of the chosen entry that are given no token.
missingParams ==
    {k \in 1..Len(EntryParams(chosenEntry)) : ~isSupplied(EntryParams(chosenEntry)[k][1])}

\* C15, as the code has it: a Select for an entry with placeholders is
\* returned only if the k-th argument token is present for every positional
\* placeholder $k; when one is missing no Action is returned and the error
\* shown is that of the first placeholder, in order of first appearance in
\* the template, that is missing or refused: "Option requires parameter
\* <label>" with the label of the missing placeholder (its override, else
\* PARAM<k>), unless an earlier placeholder was given a value with a
\* disallowed character.  An entry whose only placeholder is the variadic
\* one gets all argument tokens joined with single spaces.
C15_PositionalTokensRequired ==
    selectsWithPlaceholders =>
        LET ps == EntryParams(chosenEntry)
        IN  /\ isSelect => missingParams = {}
            /\ missingParams /= {} =>
                 /\ action = NoAction
                 /\ shown = IF firstRefused \in missingParams
                            THEN <<"Option requires parameter {}",
                                   positionalLabel(chosenEntry, ps[firstRefused][1])>>
                            ELSE <<"Parameter {} cannot take value {}", ps[firstRefused][2],
                                   suppliedValue(ps[firstRefused][1])>>
            /\ (isSelect /\ Len(ps) = 1 /\ ps[1][1] = <<"$", "*">>) =>
                 action[2] = expandTemplate(chosenEntry, 1)

\* The line "!2" gives the second entry no token and has been answered
\* with the configured label of its first placeholder.
C15_Witness ==
    /\ selectsWithPlaceholders
    /\ submitted = <<"!", "2">>
    /\ action = NoAction
    /\ shown = <<"Option requires parameter {}", <<"N", "A", "M", "E">>>>

\* C15 as stated: when some positional token is missing the error shown
\* names a missing placeholder's label, and no Action is returned.
C15_NamesMissingPlaceholder ==
    selectsWithPlaceholders =>
        /\ isSelect => missingParams = {}
        /\ missingParams /= {} =>
             /\ action = NoAction
             /\ \E k \in missingParams :
                  shown = <<"Option requires parameter {}",
                            positionalLabel(chosenEntry, EntryParams(chosenEntry)[k][1])>>

\* What follows the first space of the submitted line.
afterSet == Drop(submitted, Find(submitted, SP) + 1)

\* The Setting a "set " line asks for: the remainder split once on "=", both
\* sides trimmed; no value when there is no "=".
settingAsked ==
    IF Contains(afterSet, "=")
    THEN SettingAction(Strip(Take(afterSet, Find(afterSet, "="))),
                       <<Strip(Drop(afterSet, Find(afterSet, "=") + 1))>>)
    ELSE SettingAction(Strip(afterSet), <<>>)

\* C16, as the code has it: a submitted line that starts with "set "
\* returns the Setting of its remainder, split once on "=" with both sides
\* trimmed and with no value when there is no "="; the line that is exactly
\* "set" returns no Action and shows "No setting requested!".
C16_SetLines ==
    lastKey = "LF" =>
        /\ StartsWith(submitted, <<"s", "e", "t", SP>>) =>
              action = settingAsked /\ shown = NoError
        /\ submitted = <<"s", "e", "t">> =>
              action = NoAction /\ shown = <<"No setting requested!">>

\* The buffer "set cols = 132 " has been submitted and has given
\* Setting("cols", "132").
C16_Witness ==
    /\ lastKey = "LF"
    /\ submitted = <<"s", "e", "t", SP, "c", "o", "l", "s", SP, "=", SP, "1", "3", "2">>
    /\ action = SettingAction(<<"c", "o", "l", "s">>, <<<<"1", "3", "2">>>>)

\* C16 as stated: every submitted line that is exactly "set" or starts with
\* "set " returns a Setting action.
C16_EverySetLineIsSetting ==
    (lastKey = "LF"
     /\ (submitted = <<"s", "e", "t">> \/ StartsWith(submitted, <<"s", "e", "t", SP>>)))
        => action /= NoAction /\ action[1] = "Setting"

\* The width a Setting asks for: 80 or 132 when its name is "cols" or
\* "columns" and its value is "80" or "132", and 0 otherwise.
widthAsked(a) ==
    IF a[2] \notin {<<"c", "o", "l", "s">>, <<"c", "o", "l", "u", "m", "n", "s">>} THEN 0
    ELSE IF a[3] = <<<<"8", "0">>>> THEN 80
    ELSE IF a[3] = <<<<"1", "3", "2">>>> THEN 132
    ELSE 0

\* C19: when a submitted line gives a Setting, a valid width that differs
\* from the terminal's becomes the terminal's width and the menu is built
\* again for it, from its first line; a valid width equal to the terminal's
\* leaves width, options, offset and wrapped text alone; any other name or
\* value puts an error on the status row and leaves them alone as well.
C19_SettingFrame ==
    [][(pc = "loop" /\ lastKey' = "LF" /\ action' /= NoAction /\ action'[1] = "Setting")
       => IF widthAsked(action') = 0
          THEN /\ lastError' \in {<<"Unrecognized column setting {}", action'[3]>>,
                                  <<"Unrecognized setting {}", action'[2]>>}
               /\ UNCHANGED <<columns, options, line, text>>
          ELSE IF widthAsked(action') = columns
          THEN UNCHANGED <<columns, options, line, text>>
          ELSE /\ columns' = widthAsked(action')
               /\ options' = settingsList
               /\ line' = 0
               /\ text' = WrappedLines(menuText(settingsList), widthAsked(action'))]_vars

\* "set columns=80" has been submitted on the 80 column terminal with the
\* menu scrolled down by two lines, and the menu is where it was.
C19_Witness ==
    /\ lastKey = "LF"
    /\ action = SettingAction(<<"c", "o", "l", "u", "m", "n", "s">>, <<<<"8", "0">>>>)
    /\ columns = 80
    /\ line = 2
    /\ lastError = NoError

\* C20, as the code has it: when a submitted line gives Select(cmd) and the
\* "Loading requested program..." message is written, cmd is what the host
\* runs next; when writing the message fails, nothing is run and the host
\* reconnects.  A host about to run a command reads no event: its only step
\* runs the command and leads to a new connection, then to the menu, and a
\* menu that has been drawn has an empty buffer, cursor 1 and offset 0.
C20_SelectRunsCommand ==
    [][/\ (pc = "loop" /\ lastKey' = "LF" /\ action' /= NoAction /\ action'[1] = "Select")
          => IF lastError' = <<"Loading requested program...">>
             THEN pc' = "run" /\ cmd' = <<action'[2]>>
             ELSE pc' = "connect" /\ cmd' = <<>>
       /\ pc = "run" => pc' = "connect" /\ cmd' = cmd /\ lastKey' = "none"
       /\ pc = "connect" => pc' = "draw"
       /\ pc = "draw" => pc' \in {"loop", "crashed"}
       /\ (pc = "draw" /\ pc' = "loop")
          => /\ input' = <<>>
             /\ cursorPos' = 1
             /\ line' = 0
             /\ options' = settingsList
             /\ text' = WrappedLines(menuText(settingsList), columns')]_vars

\* "!2 a b" has given a Select and the host is about to run its command.
C20_Witness ==
    /\ pc = "run"
    /\ lastKey = "LF"
    /\ submitted = <<"!", "2", SP, "a", SP, "b">>
    /\ action /= NoAction
    /\ action[1] = "Select"
    /\ cmd = <<action[2]>>

\* C20 as stated: whenever a submitted line gives Select(cmd), the host is
\* about to run cmd.
C20_SelectAlwaysRuns ==
    (lastKey = "LF" /\ action /= NoAction /\ action[1] = "Select")
        => pc = "run" /\ cmd = <<action[2]>>

\* C28: what processInput returns is None, a SelectAction or a
\* SettingAction, and nothing the terminal sends ends the host loop: the
\* loop is never left through an exception that an input event raised.
C28_InputNeverEndsLoop ==
    /\ action = NoAction \/ action[1] \in {"Select", "Setting"}
    /\ ~(pc = "crashed" /\ lastKey \in {"LF", "printable"})

\* C5: once a non-empty line has been submitted and the host waits for the
\* next input event, the buffer is empty and the cursor is 1.
C5_BufferClearedOnSubmission ==
    (pc = "loop" /\ lastKey = "LF" /\ submitted /= <<>>)
        => input = <<>> /\ cursorPos = 1

\* C9: no transport error ends the host loop.
C9_TransportErrorNeverTerminates == ~(pc = "crashed" /\ exc = "TerminalException")

\* ------------------------------------------------------------------------
\* The editing specification: the host on a narrow terminal, the user
\* sending editing keys and short events of one or more bytes.
EditEvents ==
    { <<"a">>, <<"b">>, <<"a", "b">>, <<TAB>>, <<TAB, "b">>, <<HiByte>> }

InitEdit ==
    /\ bootCols \in 3..MaxEditCols
    /\ HostStart
    /\ queue = <<>>

NextEdit ==
    \/ Connect
    \/ DrawMenu
    \/ KeyLeft
    \/ KeyRight
    \/ KeyErase
    \/ KeyReturn
    \/ KeyPrintable(EditEvents, 0)
    \/ KeyNewline
    \/ LoseTerminal

SpecEdit == InitEdit /\ [][NextEdit]_vars

\* C7: after any sequence of key events the cursor lies between 1 and
\* len(input) + 1.
C7_CursorInBuffer == 1 <= cursorPos /\ cursorPos <= Len(input) + 1

\* C17: after any sequence of key events, printable events of one or more
\* bytes among them, the buffer is at most columns - 1 long.
C17_BufferWithinColumns == Len(input) <= columns - 1

\* An event of several bytes has gone into the buffer and the cursor stands
\* inside it.
C7_Witness ==
    /\ pc = "loop"
    /\ lastKey = "printable"
    /\ Len(input) >= 2
    /\ cursorPos > 1
    /\ cursorPos <= Len(input)

\* C22: a printable event that changes the buffer puts k >= 1 characters, none
\* of them below 0x20, into it at the cursor and moves the cursor k to the
\* right, whether the event has one byte or several.
C22_CursorAdvancesByInserted ==
    [][(pc = "loop" /\ pc' = "loop" /\ lastKey' = "printable")
       => \/ UNCHANGED <<input, cursorPos>>
          \/ \E k \in 1..Len(input') :
                /\ Len(input') = Len(input) + k
                /\ cursorPos' = cursorPos + k
                /\ Take(input', cursorPos - 1) = Take(input, cursorPos - 1)
                /\ Drop(input', cursorPos - 1 + k) = Drop(input, cursorPos - 1)
                /\ ~Contains(input', TAB)]_vars

\* The text of the sendText operations among ops, in order.
RECURSIVE echoedText(_)
echoedText(ops) ==
    IF Len(ops) = 0 THEN <<>>
    ELSE (IF Head(ops)[1] = "text" THEN Head(ops)[2] ELSE <<>>) \o echoedText(Tail(ops))

MaxQueue == 4

QueueEvents == {"UP", "DOWN", "CR"}

QueueInputs == UNION {TextsOver(QueueEvents, n) : n \in 0..MaxQueue}

\* terminal.recvInput() on a queue that holds an event: the event at its
\* head, which leaves the queue.
recvInput(q) == [event |-> Head(q), rest |-> Tail(q)]

\* terminal.peekInput(): the event at the head, which stays in the queue, or
\* "none" when the queue is empty.
peekInput(q) == IF Len(q) = 0 THEN "none" ELSE Head(q)

\* A loop that also reads the event that ended the run.
RECURSIVE drainRepeats_TakesNext(_, _, _)
drainRepeats_TakesNext(inputVal, q, n) ==
    IF inputVal = peekInput(q)
    THEN drainRepeats_TakesNext(inputVal, recvInput(q).rest, n + 1)
    ELSE IF Len(q) = 0 THEN [rest |-> q, taken |-> n]
    ELSE [rest |-> recvInput(q).rest, taken |-> n + 1]

\* while inputVal == terminal.peekInput(): terminal.recvInput()
\* n counts the events read so far.
RECURSIVE drainRepeats(_, _, _)
drainRepeats(inputVal, q, n) ==
    IF inputVal = peekInput(q)
    THEN drainRepeats(inputVal, recvInput(q).rest, n + 1)
    ELSE [rest |-> q, taken |-> n]

\* One turn of main's inner loop up to the processInput call: the event it
\* hands to processInput, the queue it leaves and the events it read.
readInput(q) ==
    LET r == recvInput(q)
    IN  IF r.event \in {"UP", "DOWN"}
        THEN LET d == drainRepeats(r.event, r.rest, 1)
             IN  [event |-> r.event, rest |-> d.rest, taken |-> d.taken]
        ELSE [event |-> r.event, rest |-> r.rest, taken |-> 1]

\* main reads an arrow from the queue and hands it to processInput once.
ReadArrow ==
    /\ pc = "loop"
    /\ queue /= <<>>
    /\ Head(queue) \in {"UP", "DOWN"}
    /\ LET r == readInput(queue)
       IN  /\ queue' = r.rest
           /\ taken' = r.taken
           /\ line' = IF r.event = "UP"
                      THEN scrollUpCall(text, line, rows, columns).line
                      ELSE scrollDownCall(text, line, rows, columns).line
           /\ Handled(r.event)
    /\ UNCHANGED <<pc, bootCols, input, cursorPos, options, lastError, cmd, exc, typed>>
    /\ UNCHANGED <<columns, rows, text, region, sent, outcome, lastOp>>
    /\ UNCHANGED pureVars

\* main reads an event that is not an arrow: a carriage return, which
\* processInput ignores.
ReadOther ==
    /\ pc = "loop"
    /\ queue /= <<>>
    /\ Head(queue) \notin {"UP", "DOWN"}
    /\ LET r == readInput(queue)
       IN  /\ queue' = r.rest
           /\ taken' = r.taken
           /\ Handled(r.event)
    /\ UNCHANGED <<pc, bootCols, input, cursorPos, options, lastError, cmd, exc, typed>>
    /\ UNCHANGED viewVars
    /\ UNCHANGED pureVars

InitQueue ==
    /\ bootCols = Cols80
    /\ HostStart
    /\ queue \in QueueInputs

NextQueue ==
    \/ Connect
    \/ DrawMenu
    \/ ReadArrow
    \/ ReadOther

SpecQueue == InitQueue /\ [][NextQueue]_vars

\* The queue without the run of equal events at its head.
RECURSIVE afterRun(_)
afterRun(q) ==
    IF Len(q) >= 2 /\ q[2] = q[1] THEN afterRun(Tail(q)) ELSE Tail(q)

\* The scroll offset after exactly one scrollUp or scrollDown call.
oneScroll(key) ==
    IF key = "DOWN"
    THEN IF line < Len(text) - rows THEN line + 1 ELSE line
    ELSE IF line > 0 THEN line - 1 ELSE line

\* C18: a read that finds UP or DOWN at the head of the queue removes the
\* whole run of that event and nothing else, so that the first event that
\* differs is still at the head of the queue, and it moves the viewport by
\* what one scrollUp or scrollDown call does.
C18_RepeatsDiscarded ==
    [][(pc = "loop" /\ queue /= <<>> /\ Head(queue) \in {"UP", "DOWN"}
        /\ queue' /= queue)
       => /\ queue' = afterRun(queue)
          /\ taken' = Len(queue) - Len(afterRun(queue))
          /\ lastKey' = Head(queue)
          /\ line' = oneScroll(Head(queue))]_vars

\* A run of three DOWN events was read as one, the menu moved by one line and
\* the event after the run is waiting.
C18_Witness ==
    /\ lastKey = "DOWN"
    /\ taken = 3
    /\ line = 1
    /\ queue /= <<>>
    /\ Head(queue) /= "DOWN"

\* ------------------------------------------------------------------------
\* The entry specification: Entry.params on every template of up to
\* MaxTemplate characters over TemplateChars, with and without an override
\* for $1.
MaxTemplate == 4

TemplateChars == {"$", "1", "2", "*", "a"}

Templates == UNION {TextsOver(TemplateChars, n) : n \in 0..MaxTemplate}

Overrides == {<<>>, <<<<<<"$", "1">>, <<"N", "A", "M", "E">>>>>>}

InitEntry ==
    /\ WrapIdle
    /\ LoopIdle
    /\ entry \in [cmd : Templates, params : Overrides]
    /\ eparams = <<>>
    /\ eread = FALSE
    /\ columns = 1
    /\ rows = 1
    /\ ViewIdle
    /\ HostIdle

\* The params property is read.
ReadParams ==
    /\ ~eread
    /\ eparams' = EntryParams(entry)
    /\ eread' = TRUE
    /\ UNCHANGED <<entry, wtext, wcols, wlines, wdone>>
    /\ UNCHANGED loopVars
    /\ UNCHANGED viewVars
    /\ UNCHANGED hostVars

NextEntry == ReadParams

SpecEntry == InitEntry /\ [][NextEntry]_vars

\* The digits that start a template.
RECURSIVE digitRun(_)
digitRun(t) ==
    IF Len(t) > 0 /\ t[1] \in Digits THEN <<t[1]>> \o digitRun(Tail(t)) ELSE <<>>

\* The occurrences in a template, left to right, of "$" followed by digits
\* and of "$*"; "$$" is an escaped dollar sign.
RECURSIVE occurrences(_)
occurrences(t) ==
    IF Len(t) < 2 THEN <<>>
    ELSE IF t[1] /= "$" THEN occurrences(Tail(t))
    ELSE IF t[2] = "$" THEN occurrences(Drop(t, 2))
    ELSE IF t[2] = "*" THEN <<<<"$", "*">>>> \o occurrences(Drop(t, 2))
    ELSE IF t[2] \in Digits
    THEN <<<<"$">> \o digitRun(Tail(t))>> \o occurrences(Drop(t, 1 + Len(digitRun(Tail(t)))))
    ELSE occurrences(Tail(t))

\* A sequence without the repeats of its elements.
RECURSIVE firstAppearances(_, _)
firstAppearances(seen, out) ==
    IF Len(seen) = 0 THEN out
    ELSE IF \E i \in 1..Len(out) : out[i] = Head(seen)
    THEN firstAppearances(Tail(seen), out)
    ELSE firstAppearances(Tail(seen), out \o <<Head(seen)>>)

\* The placeholders eparams lists, in its order.
listed == [i \in 1..Len(eparams) |-> eparams[i][1]]

\* C21: Entry.params lists every occurrence of "$" followed by digits in the
\* template, one that directly follows another placeholder included, each
\* distinct placeholder once and in the order of first appearance, with its
\* override or else TEXT / PARAM<digits> as label.
C21_EveryPlaceholderListed ==
    eread =>
        /\ listed = firstAppearances(occurrences(entry.cmd), <<>>)
        /\ \A i \in 1..Len(eparams) :
              eparams[i][2] =
                  IF eparams[i][1] = <<"$", "1">> /\ entry.params /= <<>>
                  THEN <<"N", "A", "M", "E">>
                  ELSE IF eparams[i][1] = <<"$", "*">> THEN <<"T", "E", "X", "T">>
                  ELSE <<"P", "A", "R", "A", "M">> \o Tail(eparams[i][1])

\* ------------------------------------------------------------------------
\* Further properties of the viewport specification.

\* C24: a scrollUp at offset 0 and a scrollDown at offset
\* max(0, totalLines - rows) change nothing and send nothing; any other
\* scrollUp or scrollDown that returns changes the offset by -1 or +1 and
\* the text it sends is that of the newly exposed line, the line at the new
\* offset after scrollUp and the line at new offset + rows - 1 after
\* scrollDown, and nothing more.
C24_ScrollSendsOneLine ==
    [][/\ (outcome /= "raised" /\ outcome' = "returned" /\ lastOp' = "scrollUp")
          => IF line = 0
             THEN line' = 0 /\ sent' = <<>> /\ text' = text
             ELSE /\ line' = line - 1
                  /\ text' = text
                  /\ echoedText(sent') = text[line' + 1]
       /\ (outcome /= "raised" /\ outcome' = "returned" /\ lastOp' = "scrollDown")
          => IF line = Max(0, Len(text) - rows)
             THEN line' = line /\ sent' = <<>> /\ text' = text
             ELSE /\ line' = line + 1
                  /\ text' = text
                  /\ echoedText(sent') = text[line' + rows]]_vars

\* scrollDown has exposed the line "a]" of a bracket that opens on the line
\* above it, now out of the window.
C24_Witness ==
    /\ lastOp = "scrollDown"
    /\ outcome = "returned"
    /\ rows = 1
    /\ line = 1
    /\ text[1] = <<"[", "a">>
    /\ echoedText(sent) = <<"a", "]">>

\* The smaller of two integers.
Min(a, b) == IF a <= b THEN a ELSE b

\* Arguments of boundsEnforce around both ends of the range it clamps to.
JumpTargets == (0 - 3)..8

\* The line pageUp, pageDown, goToTop or goToBottom aims at.
aimOf(name) ==
    CASE name = "pageUp" -> line - (rows - 1)
      [] name = "pageDown" -> line + (rows - 1)
      [] name = "goToTop" -> 0
      [] name = "goToBottom" -> Len(text) - rows

\* C25: boundsEnforce(n) is max(0, min(n, totalLines - rows)), which lies
\* between 0 and max(0, totalLines - rows) and is 0 when totalLines <= rows;
\* pageUp, pageDown, goToTop and goToBottom that return leave the offset at
\* boundsEnforce of the line they aim at, and they send the whole window,
\* its lines one per row, exactly when that differs from the offset before.
C25_JumpsClampAndRedraw ==
    [][/\ \A n \in JumpTargets :
            /\ boundsEnforce(n, Len(text), rows) = Max(0, Min(n, Len(text) - rows))
            /\ boundsEnforce(n, Len(text), rows) \in 0..Max(0, Len(text) - rows)
            /\ Len(text) <= rows => boundsEnforce(n, Len(text), rows) = 0
       /\ (outcome /= "raised" /\ outcome' = "returned"
           /\ lastOp' \in {"pageUp", "pageDown", "goToTop", "goToBottom"})
          => /\ line' = Max(0, Min(aimOf(lastOp'), Len(text) - rows))
             /\ text' = text
             /\ IF line' = line
                THEN sent' = <<>>
                ELSE /\ sent' /= <<>>
                     /\ echoedText(sent') = Join(SubSeq(text, line' + 1, line' + rows), <<NL>>)]_vars

\* pageDown has moved a window of two rows by one line, to the end of a text
\* of three lines, and has drawn both rows.
C25_Witness ==
    /\ lastOp = "pageDown"
    /\ outcome = "returned"
    /\ rows = 2
    /\ Len(text) = 3
    /\ line = 1
    /\ echoedText(sent) = Join(SubSeq(text, 2, 3), <<NL>>)

\* The given lines drawn in one scan from line 0 on a terminal of cols
\* columns, each character with the style it is sent in.
wholeStyled(lines, cols) ==
    styledChars(DisplayScan(lines, 0, Len(lines), cols, 0, Len(lines), FALSE).out, FALSE)

\* The number of characters in the first k lines.
RECURSIVE charsBefore(_, _)
charsBefore(lines, k) == IF k = 0 THEN 0 ELSE charsBefore(lines, k - 1) + Len(lines[k])

\* The characters of the 0-based lines from to upto - 1, styled as the scan
\* from line 0 styles them.
styledLines(lines, cols, from, upto) ==
    SubSeq(wholeStyled(lines, cols), charsBefore(lines, from) + 1, charsBefore(lines, upto))

\* C26: a scan that keeps the lines above a line k out of its output ends
\* with the bracket depth and the requested style of the scan that sends
\* them, and sends nothing; the line scrollUp or scrollDown exposes, and
\* the window a full redraw draws, are sent character by character in the
\* style the scan of all lines from line 0 gives them, and no other line is
\* sent.
C26_ScanFromLineZero ==
    [][/\ \A k \in 0..Min(Len(text), rows + line) :
            /\ DisplayScan(text, line, rows, columns, k, k, FALSE).depth
                 = DisplayScan(text, line, rows, columns, 0, k, FALSE).depth
            /\ DisplayScan(text, line, rows, columns, k, k, FALSE).req
                 = DisplayScan(text, line, rows, columns, 0, k, FALSE).req
            /\ DisplayScan(text, line, rows, columns, k, k, FALSE).out = <<>>
       /\ (outcome /= "raised" /\ outcome' = "returned" /\ sent' /= <<>>)
          => styledChars(sent', FALSE) =
                CASE lastOp' = "scrollUp" -> styledLines(text, columns, line', line' + 1)
                  [] lastOp' = "scrollDown" ->
                        styledLines(text, columns, line' + rows - 1, line' + rows)
                  [] lastOp' = "displayText" ->
                        styledLines(text', columns, 0, Min(rows, Len(text')))
                  [] OTHER -> styledLines(text, columns, line', line' + rows)]_vars

\* scrollDown has exposed the line "a]" and has sent it in bold, as the
\* bracket opened on the line above requires.
C26_Witness ==
    /\ lastOp = "scrollDown"
    /\ outcome = "returned"
    /\ rows = 1
    /\ line = 1
    /\ text[1] = <<"[", "a">>
    /\ styledChars(sent, FALSE) = << <<"a", TRUE>>, <<"]", TRUE>> >>

\* ------------------------------------------------------------------------
\* The loop specification: wordWrap one iteration at a time, on every text
\* of up to MaxLoopLen characters over LoopChars and every width up to
\* MaxCols.
MaxLoopLen == 4

LoopChars == {"a", SP, NL}

LoopTexts == UNION {TextsOver(LoopChars, n) : n \in 0..MaxLoopLen}

\* wordWrap is entered: its locals before the first test of the loop.
InitLoop ==
    /\ wtext \in LoopTexts
    /\ wcols \in 1..MaxCols
    /\ wlines = <<>>
    /\ wdone = FALSE
    /\ remaining = ReplaceCRLF(wtext)
    /\ newText = <<>>
    /\ curLine = <<>>
    /\ EntryIdle
    /\ columns = wcols
    /\ rows = 1
    /\ ViewIdle
    /\ HostIdle

\* One iteration of "while text".
WrapStep ==
    /\ ~wdone
    /\ Len(remaining) > 0
    /\ remaining' = WrapIter(remaining, newText, curLine, wcols).text
    /\ newText' = WrapIter(remaining, newText, curLine, wcols).newText
    /\ curLine' = WrapIter(remaining, newText, curLine, wcols).curLine
    /\ UNCHANGED <<wtext, wcols, wlines, wdone>>
    /\ UNCHANGED entryVars
    /\ UNCHANGED viewVars
    /\ UNCHANGED hostVars

\* The loop is left: the final joinLines and the return.
WrapReturn ==
    /\ ~wdone
    /\ Len(remaining) = 0
    /\ newText' = joinLines(newText, curLine).newText
    /\ curLine' = joinLines(newText, curLine).curLine
    /\ wlines' = SplitOn(joinLines(newText, curLine).newText, NL)
    /\ wdone' = TRUE
    /\ UNCHANGED <<wtext, wcols, remaining>>
    /\ UNCHANGED entryVars
    /\ UNCHANGED viewVars
    /\ UNCHANGED hostVars

NextLoop ==
    \/ WrapStep
    \/ WrapReturn

\* The interpreter goes on with the loop whenever it can.
SpecLoop == InitLoop /\ [][NextLoop]_vars /\ WF_vars(WrapStep) /\ WF_vars(WrapReturn)

\* C27: every iteration of wordWrap's loop makes the remaining text shorter
\* or, leaving it as it is, flushes a current line that is not empty; and
\* wordWrap returns.
C27_WrapTerminates ==
    /\ [][(~wdone /\ Len(remaining) > 0)
          => \/ Len(remaining') < Len(remaining)
             \/ remaining' = remaining /\ Len(curLine) > 0 /\ curLine' = <<>>]_vars
    /\ <>wdone

\* "a aa" at three columns has been wrapped: the second word did not fit
\* after "a ", so one iteration only flushed that line.
C27_Witness ==
    /\ wdone
    /\ wcols = 3
    /\ wtext = <<"a", SP, "a", "a">>
    /\ wlines = << <<"a", SP>>, <<"a", "a">> >>

====
